---- MODULE Spec2Model ----
(***************************************************************************)
(* Breakpoint engine of the Scope debugger front-end (scope/src/break.c). *)
(*                                                                         *)
(* The breakpoint collection is a GtkListStore: an ordered list of rows.   *)
(* C strings are sequences of one-character strings, so that the prefix,   *)
(* strchr, isdigit and atoi tests of the source are computed and not       *)
(* assumed.  A NULL pointer is the distinguished value NULL.               *)
(***************************************************************************)
EXTENDS Integers, Sequences, FiniteSets, TLC

(***************************************************************************)
(* Bounds of the model.                                                    *)
(***************************************************************************)
MaxRows  == 2    \* rows held by the list store
MaxBkpt  == 1    \* one-digit breakpoint numbers the debugger hands out
MaxQueue == 2    \* commands sent to the debugger and not yet answered
MaxScid  == 3    \* rows created since the store was last emptied
MaxLine  == 1    \* lines of the document the user toggles breakpoints on
MaxSteps == 4    \* handlers run in one behaviour
MaxListSteps   == 5    \* the same, where only listings and what leads to them run
MaxInsertSteps == 5    \* the same, for the replies to insert commands
MaxDeltaSteps  == 5    \* the same, for the edits of a document
MaxDocLine == 3  \* lines of the document that is edited
MaxDelta   == 2  \* lines one edit adds or removes
MaxToggleSteps == 6    \* the same, for the enabled toggle and its confirmation

MaxChildSteps  == 5    \* the same, for the locations of a breakpoint
MaxDoneSteps   == 5    \* the same, for the confirmations and the rows they are for
MaxThreadSteps == 6    \* the same, for the thread engine
MaxStraySteps == 5     \* the same, for thread messages out of order
MaxRemoveSteps == 5    \* the same, for the ways a breakpoint goes away

(***************************************************************************)
(* C strings.                                                              *)
(***************************************************************************)
NULL == <<"(null)">>

Digits == <<"0", "1", "2", "3", "4", "5", "6", "7", "8", "9">>

isdigit(c) == \E d \in 1..10 : Digits[d] = c

DigitVal(c) == (CHOOSE d \in 1..10 : Digits[d] = c) - 1

\* number of leading digits of s
RECURSIVE DigitRun(_)
DigitRun(s) ==
    IF s = <<>> \/ ~isdigit(Head(s)) THEN 0 ELSE 1 + DigitRun(Tail(s))

RECURSIVE DecVal(_, _)
DecVal(s, acc) ==
    IF s = <<>> THEN acc ELSE DecVal(Tail(s), 10 * acc + DigitVal(Head(s)))

\* atoi(): the value of the leading decimal digits, 0 when there are none
atoi(s) == DecVal(SubSeq(s, 1, DigitRun(s)), 0)

\* utils_atoi0(): atoi() that takes NULL for 0
utils_atoi0(s) == IF s = NULL THEN 0 ELSE atoi(s)

\* printf("%d") of a natural number
RECURSIVE itoa(_)
itoa(n) ==
    IF n < 10 THEN <<Digits[n + 1]>> ELSE itoa(n \div 10) \o <<Digits[(n % 10) + 1]>>

\* strchr(): the index of the first c in s, 0 when there is none
RECURSIVE strchrFrom(_, _, _)
strchrFrom(s, c, i) ==
    IF i > Len(s) THEN 0 ELSE IF s[i] = c THEN i ELSE strchrFrom(s, c, i + 1)

strchr(s, c) == strchrFrom(s, c, 1)

\* s[i] of a C string: the terminating NUL is one past the last character
CharAt(s, i) == IF i <= Len(s) THEN s[i] ELSE "\\0"

\* g_path_is_absolute()
g_path_is_absolute(s) == s # <<>> /\ s[1] = "/"

RECURSIVE LastSlash(_, _)
LastSlash(s, i) ==
    IF i = 0 THEN 0 ELSE IF s[i] = "/" THEN i ELSE LastSlash(s, i - 1)

\* utils_get_utf8_basename(): the part after the last '/'
utils_get_utf8_basename(s) ==
    IF s = NULL THEN NULL ELSE SubSeq(s, LastSlash(s, Len(s)) + 1, Len(s))


\* utils_get_display_from_7bit(), utils_get_display_from_locale(),
\* utils_get_locale_from_display(), parse_find_locale(): character set
\* conversions; every string of the model is 7-bit ASCII without escapes, on
\* which each of them returns its argument
utils_get_display_from_7bit(s) == s

utils_get_display_from_locale(s) == s

utils_get_locale_from_display(s) == s

(***************************************************************************)
(* Breakpoint types.                                                       *)
(***************************************************************************)
BP_CHARS   == <<"b", "h", "t", "f", "w", "w", "w", "a", "a", "r", "r", "c", "?">>
BP_BREAKS  == {"b", "h"}
BP_TRACES  == {"t", "f"}
BP_HARDWS  == {"h", "f"}
BP_BORTS   == {"b", "h", "t", "f"}
BP_KNOWNS  == {"b", "t", "f", "w", "a", "r"}
BP_WATCHES == {"w", "a", "r"}
BP_WATOPTS == {"a", "r"}

\* break_types[].text; a string the code only compares whole is written as
\* one symbol
break_types ==
    << <<"breakpoint">>, <<"hw breakpoint">>, <<"tracepoint">>,
       <<"fast tracepoint">>, <<"wpt">>, <<"watchpoint">>, <<"hw watchpoint">>,
       <<"hw-awpt">>, <<"acc watchpoint">>, <<"hw-rwpt">>, <<"read watchpoint">>,
       <<"catchpoint">> >>

\* the loop over break_types and the index into BP_CHARS
RECURSIVE BreakTypeIndex(_, _)
BreakTypeIndex(text_type, i) ==
    IF i > Len(break_types) \/ break_types[i] = text_type THEN i
    ELSE BreakTypeIndex(text_type, i + 1)

BreakTypeChar(text_type) == BP_CHARS[BreakTypeIndex(text_type, 1)]

(***************************************************************************)
(* Rows of the list store.  A row appended to a GtkListStore holds NULL    *)
(* strings, zero integers and FALSE booleans until they are set.           *)
(***************************************************************************)
BlankRow ==
    [id |-> NULL, file |-> NULL, line |-> 0, scid |-> 0, type |-> "\\0",
     enabled |-> FALSE, display |-> NULL, func |-> NULL, addr |-> NULL,
     times |-> 0, ignore |-> NULL, cond |-> NULL, script |-> NULL,
     pending |-> FALSE, location |-> NULL, run_apply |-> FALSE,
     temporary |-> FALSE, discard |-> FALSE, missing |-> FALSE]

\* an iterator is the position of its row; InvalidIter is an iterator the
\* store's checks reject, UninitIter one that was never written
InvalidIter == 0
UninitIter == -1

ValidIter(rs, it) == it \in 1..Len(rs)

\* model_find() on a string column: the first row whose column equals key
model_find(rs, column, key) ==
    IF \E i \in 1..Len(rs) : rs[i][column] = key
    THEN CHOOSE i \in 1..Len(rs) :
            /\ rs[i][column] = key
            /\ \A j \in 1..(i - 1) : rs[j][column] # key
    ELSE InvalidIter

\* model_find() on the integer column BREAK_SCID: the key is read with atoi()
model_find_scid(rs, key) ==
    IF \E i \in 1..Len(rs) : rs[i].scid = atoi(key)
    THEN CHOOSE i \in 1..Len(rs) :
            /\ rs[i].scid = atoi(key)
            /\ \A j \in 1..(i - 1) : rs[j].scid # atoi(key)
    ELSE InvalidIter

\* gtk_list_store_insert_after() / gtk_list_store_append()
InsertAt(rs, pos, row) ==
    SubSeq(rs, 1, pos - 1) \o <<row>> \o SubSeq(rs, pos, Len(rs))

RemoveAt(rs, pos) == SubSeq(rs, 1, pos - 1) \o SubSeq(rs, pos + 1, Len(rs))

(***************************************************************************)
(* Protocol nodes.  A row node is an array of named values; the record     *)
(* holds the value found for each name the engine looks up, NULL when the  *)
(* name is absent.  script is the type of the node named script ("NONE"    *)
(* when there is none) and script_items its elements (the node itself when *)
(* it is a value).                                                         *)
(***************************************************************************)
BlankNode ==
    [ptype |-> "PT_ARRAY", name |-> <<"bkpt">>, number |-> NULL, type |-> NULL,
     enabled |-> NULL, disp |-> NULL, times |-> NULL,
     original_location |-> NULL, exp |-> NULL, what |-> NULL,
     pending |-> NULL, cond |-> NULL, ignore |-> NULL, pass |-> NULL,
     script |-> "NONE", script_items |-> <<>>, fullname |-> NULL,
     line |-> NULL, func |-> NULL, addr |-> NULL]

\* a scalar where a row array is required
ValueNode == [BlankNode EXCEPT !.ptype = "PT_VALUE"]

\* parse_location(): file is the absolute fullname, line is 0 without a file
parse_location(node) ==
    LET file == IF node.fullname # NULL /\ g_path_is_absolute(node.fullname)
                THEN node.fullname ELSE NULL
    IN  [file |-> file,
         line |-> IF file = NULL THEN 0 ELSE utils_atoi0(node.line),
         func |-> node.func,
         addr |-> node.addr]

(***************************************************************************)
(* Commands.  A command is the token prefix of its format string and its   *)
(* text, a sequence of symbols: the verb, one symbol for each flag, and    *)
(* the characters of every string argument.                                *)
(***************************************************************************)
Command(prefix, text) == [prefix |-> prefix, text |-> text]

\* break_command(): the verb of the editable column index (0, 1, 2)
break_command(index, type) ==
    IF index = 0 /\ type \in BP_TRACES
    THEN "passcount"
    ELSE <<"after", "condition", "commands">>[index + 1]

\* the escaping loop of append_script_command()
RECURSIVE EscapeQuoted(_)
EscapeQuoted(s) ==
    IF s = <<>> THEN <<>>
    ELSE (IF Head(s) = "\"" \/ Head(s) = "\\" THEN <<"\\">> ELSE <<>>)
         \o <<Head(s)>> \o EscapeQuoted(Tail(s))

\* append_script_command(): string is the text gathered so far; an array
\* where a command is required is reported and skipped
append_script_command(node, string) ==
    IF node.ptype = "PT_VALUE"
    THEN (IF Len(string) > 0 THEN string \o <<" ">> ELSE string)
         \o <<"\"">> \o EscapeQuoted(utils_get_display_from_7bit(node.value))
         \o <<"\"">>
    ELSE string

RECURSIVE ScriptText(_, _)
ScriptText(items, string) ==
    IF items = <<>> THEN string
    ELSE ScriptText(Tail(items), append_script_command(Head(items), string))

\* the text break_node_parse() stores in BREAK_SCRIPT for the script node
\* of a row node: a value is one command, an array holds one per element
ScriptOf(node) ==
    IF node.script = "PT_VALUE"
    THEN append_script_command(node.script_items[1], <<>>)
    ELSE ScriptText(node.script_items, <<>>)

\* "script: contains array" reports
ScriptErrors(node) ==
    IF node.script = "PT_VALUE" THEN 0
    ELSE Cardinality({i \in 1..Len(node.script_items) :
                         node.script_items[i].ptype # "PT_VALUE"})

\* the follow-up command of break_iter_applied() for one editable column
AppliedColumn(index, type, id, column) ==
    IF utils_get_locale_from_display(column) = NULL THEN <<>>
    ELSE << Command(<<>>, <<"-break-", break_command(index, type), " ">> \o id
                          \o <<" ">> \o utils_get_locale_from_display(column)) >>

\* follow-up commands that leave out the count
break_iter_applied_uncounted(row, id) ==
    LET borts == row.type \in BP_BORTS
        col1 == IF borts THEN NULL ELSE row.cond
    IN  (IF ~borts /\ ~row.enabled
         THEN << Command(<<>>, <<"-break-disable", " ">> \o id) >> ELSE <<>>)
        \o AppliedColumn(1, row.type, id, col1)
        \o AppliedColumn(2, row.type, id, row.script)

\* break_iter_applied(): the commands it sends for the row, in order
break_iter_applied(row, id) ==
    LET borts == row.type \in BP_BORTS
        col0 == IF borts /\ row.type \in BP_BREAKS THEN NULL ELSE row.ignore
        col1 == IF borts THEN NULL ELSE row.cond
    IN  (IF ~borts /\ ~row.enabled
         THEN << Command(<<>>, <<"-break-disable", " ">> \o id) >> ELSE <<>>)
        \o AppliedColumn(0, row.type, id, col0)
        \o AppliedColumn(1, row.type, id, col1)
        \o AppliedColumn(2, row.type, id, row.script)

(***************************************************************************)
(* break_node_parse().  The pass state ps holds the store (rows, scid_gen),*)
(* the BreakData (iter, type, stage), the commands sent and the errors     *)
(* reported so far.  ub says how a read of an iterator that was never       *)
(* written, or a second free of a string, ends: "survive" (the store's     *)
(* checks refuse the garbage, the allocator takes the block), "abort" (the *)
(* process dies), or, for the iterator, "first" and "last" (what is read   *)
(* is an iterator an earlier call left there, of the first or of the last  *)
(* row of the store).                                                      *)
(***************************************************************************)
UndefinedReads == {"survive", "abort", "first", "last"}

\* the iterator break_node_parse() reads in bd->iter
SiblingIter(ps, ub) ==
    IF ps.iter # UninitIter \/ ps.rows = <<>> THEN ps.iter
    ELSE IF ub = "first" THEN 1
    ELSE IF ub = "last" THEN Len(ps.rows)
    ELSE UninitIter

PassState(rs, gen, it, stage) ==
    [rows |-> rs, scid_gen |-> gen, iter |-> it, type |-> "\\0",
     stage |-> stage, sent |-> <<>>, errs |-> 0, crashed |-> FALSE,
     ubsite |-> FALSE]

\* an error that leaves the pass in the stage it was in
ParseError_staged(ps) == [ps EXCEPT !.errs = @ + 1]

\* dc_error() and bd->stage = BG_DISCARD for a node that cannot be parsed
ParseError(ps) == [ps EXCEPT !.errs = @ + 1, !.stage = "BG_DISCARD"]

\* a merge that sets the three columns at every stage, whatever the type
break_merge_columns_always(type, notapply) == [flags |-> TRUE, ignore |-> TRUE]

\* the columns break_node_parse() sets from the message besides the location:
\* flags stands for BREAK_ENABLED and BREAK_COND, ignore for BREAK_IGNORE
break_merge_columns(type, notapply) ==
    [flags |-> type \in BP_BORTS \/ notapply,
     ignore |-> (type \in BP_BORTS \/ notapply) /\ (type \in BP_BREAKS \/ notapply)]

\* a row that is kept whatever its type is
break_persist_untyped(leading, stage, location, type) ==
    leading /\ stage = "BG_PERSIST" /\ location # NULL

\* persist of break_node_parse(): the row of a new breakpoint is kept beyond
\* the session when a command can make the breakpoint again
break_persist(leading, stage, location, type) ==
    /\ leading
    /\ stage = "BG_PERSIST"
    /\ ~(location = NULL \/ type \notin BP_KNOWNS)

\* break_node_parse() where found is what the search for the row with the
\* node's id returned
break_node_merge(node, ps, ub, found) ==
    IF ps.crashed THEN ps
    ELSE IF node.ptype = "PT_VALUE" THEN ParseError(ps)
    ELSE IF node.number = NULL THEN ParseError(ps)
    ELSE
    LET id        == node.number
        text_type == IF node.type = NULL THEN node.name ELSE node.type
        type0     == BreakTypeChar(text_type)
        leading   == strchr(id, ".") = 0
        type      == IF leading \/ ps.stage # "BG_NEXT" \/ type0 # "?"
                     THEN type0 ELSE ps.type
        borts     == type \in BP_BORTS
        loc0      == parse_location(node)
        enabled   == node.enabled # <<"n">>
        temporary == node.disp = <<"del">>
        notapply  == ps.stage # "BG_APPLY"
        isnew     == notapply /\ found = InvalidIter
        \* new breakpoint
        original  == node.original_location
        split     == IF original = NULL THEN 0 ELSE strchr(original, ":")
        cut       == /\ isnew
                     /\ original # NULL
                     /\ g_path_is_absolute(original)
                     /\ split > 1
                     /\ CharAt(original, split + 1) # ":"
        file      == IF cut /\ loc0.file = NULL
                     THEN SubSeq(original, 1, split - 1) ELSE loc0.file
        line      == IF cut /\ isdigit(CharAt(original, split + 1)) /\ loc0.line = 0
                     THEN atoi(SubSeq(original, split + 1, Len(original)))
                     ELSE loc0.line
        location0 == IF original # NULL THEN original
                     ELSE IF type \in BP_WATCHES
                          THEN (IF node.exp # NULL THEN node.exp ELSE node.what)
                          ELSE NULL
        persist   == break_persist(leading, ps.stage, location0, type)
        location  == IF location0 = NULL THEN loc0.func ELSE location0
        display   == IF borts THEN utils_get_utf8_basename(location)
                     ELSE utils_get_display_from_locale(location)
        newrow    == [BlankRow EXCEPT !.scid = ps.scid_gen + 1, !.type = type,
                         !.display = display, !.pending = (node.pending # NULL),
                         !.location = location, !.run_apply = (leading /\ borts),
                         !.discard = ~persist]
        ubsite    == isnew /\ ~leading /\ ps.iter = UninitIter
        abort     == ubsite /\ ub = "abort"
        sibling   == SiblingIter(ps, ub)
        after     == isnew /\ ~leading /\ ValidIter(ps.rows, sibling)
        rows1     == IF isnew /\ leading THEN Append(ps.rows, newrow)
                     ELSE IF after THEN InsertAt(ps.rows, sibling + 1, newrow)
                     ELSE ps.rows
        iter1     == IF ~notapply THEN ps.iter
                     ELSE IF ~isnew THEN found
                     ELSE IF leading THEN Len(ps.rows) + 1
                     ELSE IF after THEN sibling + 1
                     ELSE ps.iter
        script    == IF node.script # "NONE" THEN ScriptOf(node) ELSE NULL
        ignore    == IF node.ignore # NULL THEN node.ignore ELSE node.pass
        columns   == break_merge_columns(type, notapply)
        merged(r) == [r EXCEPT
                         !.script = IF notapply THEN script ELSE @,
                         !.enabled = IF columns.flags THEN enabled ELSE @,
                         !.cond = IF columns.flags
                                  THEN utils_get_display_from_7bit(node.cond) ELSE @,
                         !.ignore = IF columns.ignore THEN ignore ELSE @,
                         !.id = id, !.file = file, !.line = line,
                         !.func = loc0.func, !.addr = loc0.addr,
                         !.times = utils_atoi0(node.times), !.missing = FALSE,
                         !.temporary = temporary]
        rows2     == IF ValidIter(rows1, iter1)
                     THEN [rows1 EXCEPT ![iter1] = merged(@)] ELSE rows1
        sent1     == IF ~notapply THEN break_iter_applied(rows2[iter1], id)
                     ELSE IF ps.stage = "BG_GOTO"
                          THEN << Command(<<>>, <<"-exec-continue">>) >>
                          ELSE <<>>
    IN  IF abort THEN [ps EXCEPT !.crashed = TRUE, !.ubsite = TRUE]
        ELSE [ps EXCEPT
                 !.ubsite = @ \/ ubsite,
                 !.rows = rows2,
                 !.scid_gen = IF isnew THEN @ + 1 ELSE @,
                 !.iter = iter1,
                 !.type = type,
                 !.stage = "BG_NEXT",
                 !.sent = @ \o sent1,
                 !.errs = @ + (IF notapply /\ node.script # "NONE"
                               THEN ScriptErrors(node) ELSE 0)]

\* a parse that takes every node for a new breakpoint
break_node_parse_unsought(node, ps, ub) ==
    break_node_merge(node, ps, ub, InvalidIter)

break_node_parse(node, ps, ub) ==
    break_node_merge(node, ps, ub, model_find(ps.rows, "id", node.number))

\* a pass that ends at the first node that cannot be parsed
RECURSIVE ParseNodes_halting(_, _, _)
ParseNodes_halting(nodes, ps, ub) ==
    IF nodes = <<>> THEN ps
    ELSE IF Head(nodes).ptype = "PT_VALUE" \/ Head(nodes).number = NULL
         THEN ParseError(ps)
         ELSE ParseNodes_halting(Tail(nodes), break_node_parse(Head(nodes), ps, ub), ub)

\* array_foreach(nodes, break_node_parse, &bd)
RECURSIVE ParseNodes(_, _, _)
ParseNodes(nodes, ps, ub) ==
    IF nodes = <<>> THEN ps
    ELSE ParseNodes(Tail(nodes), break_node_parse(Head(nodes), ps, ub), ub)

(***************************************************************************)
(* Replies and notifications of the debugger.                              *)
(***************************************************************************)
\* a choice of stage that knows no token to run to a location
break_stage_ungone(token, it) ==
    IF token = NULL \/ CharAt(token, 1) = "0" THEN "BG_PERSIST"
    ELSE IF token # <<>>
         THEN (IF it # InvalidIter THEN "BG_APPLY" ELSE "BG_PERSIST")
         ELSE "BG_DISCARD"

\* a choice of stage that leaves the empty token in the first stage
break_stage_undiscarded(token, it) ==
    IF token = NULL THEN "BG_PERSIST"
    ELSE IF CharAt(token, 1) = "0" THEN "BG_GOTO"
    ELSE IF token # <<>> /\ it # InvalidIter THEN "BG_APPLY"
    ELSE "BG_PERSIST"

\* a choice of stage that discards the reply whose row is not found
break_stage_lost(token, it) ==
    IF token = NULL THEN "BG_PERSIST"
    ELSE IF CharAt(token, 1) = "0" THEN "BG_GOTO"
    ELSE IF token # <<>> /\ it # InvalidIter THEN "BG_APPLY"
    ELSE "BG_DISCARD"

\* the stage on_break_inserted() starts the pass in: it is what the search
\* for the row with the token's sequence id returned
break_stage(token, it) ==
    IF token = NULL THEN "BG_PERSIST"
    ELSE IF CharAt(token, 1) = "0" THEN "BG_GOTO"
    ELSE IF token # <<>>
         THEN (IF it # InvalidIter THEN "BG_APPLY" ELSE "BG_PERSIST")
         ELSE "BG_DISCARD"

\* on_break_inserted(): token is NULL when the message carries none
on_break_inserted(rs, gen, token, nodes, ub) ==
    LET byscid == token # NULL /\ token # <<>> /\ token[1] # "0"
        it     == IF byscid THEN model_find_scid(rs, token) ELSE UninitIter
        stage  == break_stage(token, it)
        ps0    == PassState(rs, gen, it, stage)
    IN  ParseNodes(nodes,
                   [ps0 EXCEPT !.errs = IF byscid /\ it = InvalidIter THEN 1 ELSE 0],
                   ub)

\* a clear that leaves the address in the row
break_clear_addressed(row) ==
    [row EXCEPT !.id = NULL,
                !.temporary = IF row.type \in BP_BORTS THEN @ ELSE FALSE]

\* break_clear()
break_clear(row) ==
    [row EXCEPT !.id = NULL, !.addr = NULL,
                !.temporary = IF row.type \in BP_BORTS THEN @ ELSE FALSE]

\* break_remove(): the marker is the editor's, the row leaves the store
break_remove(rs, it) == RemoveAt(rs, it)

\* the test of break_remove_all(): id starts with pref and goes on with
\* '.' or ends there
\* a match of the leading characters alone
HasPrefix_open(id, pref) ==
    /\ id # NULL
    /\ Len(id) >= Len(pref)
    /\ SubSeq(id, 1, Len(pref)) = pref

HasPrefix(id, pref) ==
    /\ id # NULL
    /\ Len(id) >= Len(pref)
    /\ SubSeq(id, 1, Len(pref)) = pref
    /\ CharAt(id, Len(pref) + 1) \in {".", "\\0"}

RECURSIVE RemoveAllFrom(_, _, _, _)
RemoveAllFrom(rs, it, pref, force) ==
    IF it > Len(rs) THEN rs
    ELSE IF HasPrefix(rs[it].id, pref)
         THEN IF rs[it].discard \/ force
              THEN RemoveAllFrom(break_remove(rs, it), it, pref, force)
              ELSE RemoveAllFrom([rs EXCEPT ![it] = break_clear(@)], it + 1,
                                 pref, force)
         ELSE RemoveAllFrom(rs, it + 1, pref, force)

\* break_remove_all(): the rows left, and whether any row matched
break_remove_all(rs, pref, force) ==
    [rows |-> RemoveAllFrom(rs, 1, pref, force),
     found |-> \E i \in 1..Len(rs) : HasPrefix(rs[i].id, pref)]

\* break_enable()
break_enable(row, enable) == [row EXCEPT !.enabled = enable]

\* a payload that keeps the operation digit
break_done_whole(token) == token

\* token + 1 in on_break_done(): the token without its operation digit
break_done_payload(token) == SubSeq(token, 2, Len(token))

\* a confirmation that takes the first row when it finds none for its token
on_break_done_unmatched(rs, token) ==
    LET c    == CharAt(token, 1)
        rest == break_done_payload(token)
        it   == IF model_find_scid(rs, rest) = InvalidIter /\ rs # <<>>
                THEN 1 ELSE model_find_scid(rs, rest)
        all  == break_remove_all(rs, rest, TRUE)
    IN  IF c = "0" \/ c = "1"
        THEN IF it # InvalidIter
             THEN [rows |-> [rs EXCEPT ![it] = break_enable(@, c = "1")],
                   sent |-> <<>>, errs |-> 0]
             ELSE [rows |-> rs, sent |-> <<>>, errs |-> 1]
        ELSE IF c = "2"
        THEN [rows |-> rs,
              sent |-> << Command(<<>>, <<"-break-info", " ">> \o rest) >>,
              errs |-> 0]
        ELSE IF c = "3"
        THEN [rows |-> IF all.found \/ rs = <<>> THEN all.rows ELSE Tail(rs),
              sent |-> <<>>,
              errs |-> IF all.found \/ rs # <<>> THEN 0 ELSE 1]
        ELSE [rows |-> rs, sent |-> <<>>, errs |-> 1]

\* on_break_done(): the rows, the commands sent and the errors reported
on_break_done(rs, token) ==
    LET c    == CharAt(token, 1)
        rest == break_done_payload(token)
        it   == model_find_scid(rs, rest)
        all  == break_remove_all(rs, rest, TRUE)
    IN  IF c = "0" \/ c = "1"
        THEN IF it # InvalidIter
             THEN [rows |-> [rs EXCEPT ![it] = break_enable(@, c = "1")],
                   sent |-> <<>>, errs |-> 0]
             ELSE [rows |-> rs, sent |-> <<>>, errs |-> 1]
        ELSE IF c = "2"
        THEN [rows |-> rs,
              sent |-> << Command(<<>>, <<"-break-info", " ">> \o rest) >>,
              errs |-> 0]
        ELSE IF c = "3"
        THEN [rows |-> all.rows, sent |-> <<>>,
              errs |-> IF all.found THEN 0 ELSE 1]
        ELSE [rows |-> rs, sent |-> <<>>, errs |-> 1]

\* break_iter_missing() over the whole model
MarkMissing(rs) == [i \in 1..Len(rs) |-> [rs[i] EXCEPT !.missing = TRUE]]

\* breaks_missing(): the id string is freed before the test and freed again
\* when the row is removed; ub says how that second free ends
RECURSIVE MissingFrom(_, _, _)
MissingFrom(rs, it, ub) ==
    IF it > Len(rs) THEN [rows |-> rs, crashed |-> FALSE, ubsite |-> FALSE]
    ELSE IF rs[it].id # NULL /\ rs[it].missing
         THEN IF rs[it].discard
              THEN IF ub = "abort"
                   THEN [rows |-> break_remove(rs, it), crashed |-> TRUE,
                         ubsite |-> TRUE]
                   ELSE [MissingFrom(break_remove(rs, it), it, ub)
                            EXCEPT !.ubsite = TRUE]
              ELSE MissingFrom([rs EXCEPT ![it] = break_clear(@)], it + 1, ub)
         ELSE MissingFrom(rs, it + 1, ub)

\* a sweep that removes every row still missing, discardable or not
breaks_missing_all(rs, ub) ==
    [rows |-> SelectSeq(rs, LAMBDA row : ~(row.id # NULL /\ row.missing)),
     crashed |-> FALSE, ubsite |-> FALSE]

breaks_missing(rs, ub) == MissingFrom(rs, 1, ub)

\* a listing that refreshes when there is no token
on_break_list_untokened(rs, gen, token, nodes, ub) ==
    LET refresh == token = NULL
        rs0     == IF refresh THEN MarkMissing(rs) ELSE rs
        ps      == ParseNodes(nodes, PassState(rs0, gen, UninitIter, "BG_DISCARD"), ub)
        swept   == breaks_missing(ps.rows, ub)
    IN  IF refresh /\ ~ps.crashed
        THEN [ps EXCEPT !.rows = swept.rows, !.crashed = swept.crashed,
                        !.ubsite = @ \/ swept.ubsite]
        ELSE ps

\* on_break_list(): nodes is the body array of the listing, token what
\* parse_grab_token() finds in it (NULL when there is no token)
on_break_list(rs, gen, token, nodes, ub) ==
    LET refresh == token # NULL
        rs0     == IF refresh THEN MarkMissing(rs) ELSE rs
        ps      == ParseNodes(nodes, PassState(rs0, gen, UninitIter, "BG_DISCARD"), ub)
        swept   == breaks_missing(ps.rows, ub)
    IN  IF refresh /\ ~ps.crashed
        THEN [ps EXCEPT !.rows = swept.rows, !.crashed = swept.crashed,
                        !.ubsite = @ \/ swept.ubsite]
        ELSE ps

\* a notification parsed in the stage of an insert reply without token
on_break_created_persisting(rs, gen, nodes, ub) ==
    ParseNodes(nodes, PassState(rs, gen, UninitIter, "BG_PERSIST"), ub)

\* on_break_created()
on_break_created(rs, gen, nodes, ub) ==
    ParseNodes(nodes, PassState(rs, gen, UninitIter, "BG_DISCARD"), ub)

\* on_break_deleted(): id is the lead value of the notification
on_break_deleted(rs, id) == break_remove_all(rs, id, FALSE).rows

\* on_break_stopped(), the part before on_thread_stopped()
on_break_stopped(rs, async, id, disp) ==
    IF async < 1 /\ id # NULL /\ disp # NULL
    THEN IF disp = <<"dis">>
         THEN (IF model_find(rs, "id", id) # InvalidIter
               THEN [rs EXCEPT ![model_find(rs, "id", id)] = break_enable(@, FALSE)]
               ELSE rs)
         ELSE IF disp = <<"del">>
              THEN break_remove_all(rs, id, FALSE).rows
              ELSE rs
    ELSE rs

(***************************************************************************)
(* The session.  debug_state() is one of the DS_ states; a session that is *)
(* not DS_INACTIVE is active, and it takes commands in the DS_SENDABLE     *)
(* states.                                                                 *)
(***************************************************************************)
DebugStates == {"DS_INACTIVE", "DS_BUSY", "DS_READY", "DS_DEBUG", "DS_HANGING"}

\* the engine tests the state for DS_INACTIVE and for DS_SENDABLE only: one
\* sendable state and the busy one stand for the active states
ActiveStates == {"DS_BUSY", "DS_READY"}

DS_SENDABLE == {"DS_READY", "DS_DEBUG", "DS_HANGING"}

DS_NOT_BUSY == DebugStates \ {"DS_BUSY"}

\* the token parse_grab_token() returns for the reply to a command: the
\* characters of its prefix after the "02" that routes the reply, NULL for a
\* command sent without prefix
ReplyToken(prefix) ==
    IF Len(prefix) >= 2 /\ SubSeq(prefix, 1, 2) = <<"0", "2">>
    THEN SubSeq(prefix, 3, Len(prefix)) ELSE NULL

(***************************************************************************)
(* User actions.  Each returns the rows and the commands it sends; beep    *)
(* tells that the action was refused with plugin_beep().                   *)
(***************************************************************************)
Outcome(rs, sent, beep) == [rows |-> rs, sent |-> sent, beep |-> beep]

\* a toggle that a session which takes no commands does not refuse
on_break_enabled_toggled_unrefused(rs, it, st) ==
    LET row     == rs[it]
        enabled == ~row.enabled
    IN  IF st \in DS_SENDABLE /\ row.id # NULL
        THEN Outcome(rs,
                     << Command(<<"0", "2", IF enabled THEN "1" ELSE "0">>
                                    \o itoa(row.scid),
                                <<"-break-", IF enabled THEN "en" ELSE "dis",
                                  "able", " ">> \o row.id) >>,
                     FALSE)
        ELSE Outcome([rs EXCEPT ![it] = break_enable(@, enabled)], <<>>, FALSE)

\* on_break_enabled_toggled() on the row at it
on_break_enabled_toggled(rs, it, st) ==
    LET row     == rs[it]
        enabled == ~row.enabled
    IN  IF st = "DS_INACTIVE" \/ row.id = NULL
        THEN Outcome([rs EXCEPT ![it] = break_enable(@, enabled)], <<>>, FALSE)
        ELSE IF st \in DS_SENDABLE
        THEN Outcome(rs,
                     << Command(<<"0", "2", IF enabled THEN "1" ELSE "0">>
                                    \o itoa(row.scid),
                                <<"-break-", IF enabled THEN "en" ELSE "dis",
                                  "able", " ">> \o row.id) >>,
                     FALSE)
        ELSE Outcome(rs, <<>>, TRUE)

\* validate_column(): the text to store, NULL for an empty text
validate_column(text) == IF text = NULL \/ text = <<>> THEN NULL ELSE text

\* on_break_column_edited(): index 0, 1, 2 is the ignore, cond, script column
on_break_column_edited(rs, it, index, new_text, st) ==
    LET row    == rs[it]
        column == <<"ignore", "cond", "script">>[index + 1]
        locale == utils_get_locale_from_display(new_text)
    IN  IF row.id # NULL /\ st \in DS_SENDABLE
        THEN Outcome(rs,
                     << Command(<<"0", "2", "2">> \o row.id,
                                <<"-break-", break_command(index, row.type), " ">>
                                    \o row.id \o <<" ">>
                                    \o (IF locale # NULL THEN locale
                                        ELSE IF index # 0 THEN <<>> ELSE <<"0">>)) >>,
                     FALSE)
        ELSE IF row.id = NULL
        THEN Outcome([rs EXCEPT ![it][column] = validate_column(new_text)],
                     <<>>, FALSE)
        ELSE Outcome(rs, <<>>, TRUE)

\* a delete that asks the debugger whenever there is a session; printf()
\* writes (null) for a row without id
break_delete_unlocal(rs, it, st) ==
    LET id == IF rs[it].id = NULL THEN <<"(null)">> ELSE rs[it].id
    IN  IF st = "DS_INACTIVE"
        THEN Outcome(break_remove(rs, it), <<>>, FALSE)
        ELSE Outcome(rs,
                     << Command(<<"0", "2", "3">> \o id,
                                <<"-break-delete", " ">> \o id) >>,
                     FALSE)

\* a delete that removes the row at once and asks the debugger as well
break_delete_eager(rs, it, st) ==
    IF st = "DS_INACTIVE" \/ rs[it].id = NULL
    THEN Outcome(break_remove(rs, it), <<>>, FALSE)
    ELSE Outcome(break_remove(rs, it),
                 << Command(<<"0", "2", "3">> \o rs[it].id,
                            <<"-break-delete", " ">> \o rs[it].id) >>,
                 FALSE)

\* break_delete()
break_delete(rs, it, st) ==
    IF st = "DS_INACTIVE" \/ rs[it].id = NULL
    THEN Outcome(break_remove(rs, it), <<>>, FALSE)
    ELSE Outcome(rs,
                 << Command(<<"0", "2", "3">> \o rs[it].id,
                            <<"-break-delete", " ">> \o rs[it].id) >>,
                 FALSE)

\* break_apply(): the insert or watch command of a row
break_apply_command(row, enabled, thread, thread_id) ==
    LET borts == row.type \in BP_BORTS
    IN  Command(<<"0", "2">> \o itoa(row.scid),
            <<"-break-", IF borts THEN "insert" ELSE "watch">>
            \o (IF borts
                THEN (IF row.temporary THEN <<" -t">> ELSE <<>>)
                     \o (IF row.type \in BP_HARDWS THEN <<" -h">> ELSE <<>>)
                     \o (IF row.type \in BP_BREAKS
                         THEN (IF row.ignore # NULL
                               THEN <<" -i ">> \o row.ignore ELSE <<>>)
                         ELSE <<" -a">>)
                     \o (IF ~enabled THEN <<" -d">> ELSE <<>>)
                     \o (IF row.cond # NULL
                         THEN <<" -c ", "\"">>
                              \o utils_get_locale_from_display(row.cond)
                              \o <<"\"">>
                         ELSE <<>>)
                     \o (IF row.pending THEN <<" -f">> ELSE <<>>)
                     \o (IF thread /\ thread_id # NULL
                         THEN <<" -p ">> \o thread_id ELSE <<>>)
                ELSE IF row.type \in BP_WATOPTS THEN <<" -", row.type>> ELSE <<>>)
            \o <<" ">> \o row.location)

\* an apply that takes every row for enabled
break_apply_undisabled(row, thread, thread_id) ==
    break_apply_command(row, TRUE, thread, thread_id)

\* break_apply(): enabled is the BREAK_ENABLED column of the row
break_apply(row, thread, thread_id) ==
    break_apply_command(row, row.enabled, thread, thread_id)

\* breaks_apply(): break_apply() of every row marked run-apply, in order
RECURSIVE ApplyFrom(_, _)
ApplyFrom(rs, it) ==
    IF it > Len(rs) THEN <<>>
    ELSE (IF rs[it].run_apply THEN <<break_apply(rs[it], FALSE, NULL)>> ELSE <<>>)
         \o ApplyFrom(rs, it + 1)

breaks_apply(rs) == ApplyFrom(rs, 1)

\* breaks_clear()
RECURSIVE ClearFrom(_, _)
ClearFrom(rs, it) ==
    IF it > Len(rs) THEN rs
    ELSE IF rs[it].discard THEN ClearFrom(break_remove(rs, it), it)
         ELSE ClearFrom([rs EXCEPT ![it] = break_clear(@)], it + 1)

breaks_clear(rs) == ClearFrom(rs, 1)

\* break_relocate()
break_relocate(row, real_path, line) ==
    LET location == real_path \o <<":">> \o itoa(line)
    IN  [row EXCEPT !.file = real_path, !.line = line,
                    !.display = utils_get_utf8_basename(location),
                    !.location = location]

\* utils_filenamecmp() = 0
SameFile(file, real_path) == file = real_path

\* the row after the loop body of breaks_delta(): "moved" with the new row,
\* "removed", or "kept"; line is the 0-based line the body computes.  A row
\* with a line has a location in every store the engine makes; strchr() of a
\* NULL location is undefined
DeltaRow(row, real_path, start, delta, active) ==
    LET line  == row.line - 1
        split == IF row.location = NULL THEN 0 ELSE strchr(row.location, ":")
    IN  IF line >= 0 /\ start <= line /\ SameFile(row.file, real_path)
        THEN IF active THEN [what |-> "kept", row |-> row, ubsite |-> FALSE]
             ELSE IF delta > 0 \/ start - delta <= line
             THEN [what |-> "moved",
                   row |-> IF split # 0 /\ isdigit(CharAt(row.location, split + 1))
                           THEN break_relocate(row, real_path, line + delta + 1)
                           ELSE [row EXCEPT !.line = line + delta + 1],
                   ubsite |-> row.location = NULL]
             ELSE [what |-> "removed", row |-> row, ubsite |-> FALSE]
        ELSE [what |-> "kept", row |-> row, ubsite |-> FALSE]

\* the loop of breaks_delta() from the row at it
RECURSIVE DeltaFrom(_, _, _, _, _, _, _)
DeltaFrom(rs, it, real_path, start, delta, active, ub) ==
    IF it > Len(rs) THEN [rows |-> rs, crashed |-> FALSE, ubsite |-> FALSE]
    ELSE LET r == DeltaRow(rs[it], real_path, start, delta, active)
         IN  IF r.ubsite /\ ub = "abort"
             THEN [rows |-> rs, crashed |-> TRUE, ubsite |-> TRUE]
             ELSE IF r.what = "removed"
             THEN DeltaFrom(RemoveAt(rs, it), it, real_path, start, delta, active, ub)
             ELSE LET rest == DeltaFrom([rs EXCEPT ![it] = r.row], it + 1,
                                        real_path, start, delta, active, ub)
                  IN  [rest EXCEPT !.ubsite = @ \/ r.ubsite]

\* an edit that cuts the line after the lines removed as well
breaks_delta_offcut(rs, real_path, start, delta, active, ub) ==
    LET r == DeltaFrom(rs, 1, real_path, start, delta, active, ub)
    IN  [r EXCEPT !.rows = SelectSeq(@, LAMBDA row :
                     ~(/\ delta < 0 /\ ~active
                       /\ SameFile(row.file, real_path) /\ row.line - 1 = start))]

\* an edit whose added lines move no row
breaks_delta_unmoved(rs, real_path, start, delta, active, ub) ==
    IF delta > 0 THEN [rows |-> rs, crashed |-> FALSE, ubsite |-> FALSE]
    ELSE DeltaFrom(rs, 1, real_path, start, delta, active, ub)

\* an edit that moves the rows whether or not a session is active
breaks_delta_unmarked(rs, real_path, start, delta, active, ub) ==
    DeltaFrom(rs, 1, real_path, start, delta, FALSE, ub)

\* breaks_delta(): start is the 0-based line of the edit, delta the number
\* of lines added (> 0) or removed (< 0)
breaks_delta(rs, real_path, start, delta, active, ub) ==
    DeltaFrom(rs, 1, real_path, start, delta, active, ub)

\* the search loop of on_break_toggle(): found is 0 when no row is at the
\* line, -2 when the message box was shown; iter is the last row found
RECURSIVE ToggleSearch(_, _, _, _, _, _)
ToggleSearch(rs, it, found, iter1, real_path, doc_line) ==
    IF it > Len(rs) THEN [found |-> found, iter |-> iter1]
    ELSE IF rs[it].line = doc_line /\ SameFile(rs[it].file, real_path)
         THEN IF found # 0 /\ found # utils_atoi0(rs[it].id)
              THEN [found |-> -2, iter |-> iter1]
              ELSE ToggleSearch(rs, it + 1,
                                IF rs[it].id # NULL THEN atoi(rs[it].id) ELSE -1,
                                it, real_path, doc_line)
         ELSE ToggleSearch(rs, it + 1, found, iter1, real_path, doc_line)

\* on_break_toggle(): the rows, the commands sent and the new scid_gen
on_break_toggle(rs, gen, real_path, doc_line, st) ==
    LET res == ToggleSearch(rs, 1, 0, InvalidIter, real_path, doc_line)
        del == break_delete(rs, res.iter, st)
    IN  IF res.found = -2
        THEN [rows |-> rs, sent |-> <<>>, scid_gen |-> gen]
        ELSE IF res.found # 0
        THEN [rows |-> del.rows, sent |-> del.sent, scid_gen |-> gen]
        ELSE IF st # "DS_INACTIVE"
        THEN [rows |-> rs,
              sent |-> << Command(<<>>, <<"-break-insert", " ">> \o real_path
                                            \o <<":">> \o itoa(doc_line)) >>,
              scid_gen |-> gen]
        ELSE [rows |-> Append(rs,
                          [break_relocate(BlankRow, real_path, doc_line) EXCEPT
                              !.scid = gen + 1, !.type = "b", !.enabled = TRUE,
                              !.run_apply = TRUE]),
              sent |-> <<>>, scid_gen |-> gen + 1]

\* a load that leaves the generator where it was
break_load_samegen(rs, gen, rec) ==
    IF rec.type # "\\0" /\ rec.type \in BP_KNOWNS /\ rec.location # NULL /\ rec.line >= 0
    THEN [rows |-> Append(rs,
                      [BlankRow EXCEPT
                          !.file = rec.file,
                          !.line = IF rec.file = NULL THEN 0 ELSE rec.line,
                          !.scid = gen + 1, !.type = rec.type,
                          !.enabled = rec.enabled, !.display = rec.display,
                          !.func = rec.func, !.ignore = validate_column(rec.ignore),
                          !.cond = rec.cond, !.script = rec.script,
                          !.pending = rec.pending, !.location = rec.location,
                          !.run_apply = rec.run_apply,
                          !.temporary = rec.temporary]),
          scid_gen |-> gen]
    ELSE [rows |-> rs, scid_gen |-> gen]

\* a load that takes every record for a valid one
break_load_unchecked(rs, gen, rec) ==
    [rows |-> Append(rs,
                  [BlankRow EXCEPT
                      !.file = rec.file,
                      !.line = IF rec.file = NULL THEN 0 ELSE rec.line,
                      !.scid = gen + 1, !.type = rec.type,
                      !.enabled = rec.enabled, !.display = rec.display,
                      !.func = rec.func, !.ignore = validate_column(rec.ignore),
                      !.cond = rec.cond, !.script = rec.script,
                      !.pending = rec.pending, !.location = rec.location,
                      !.run_apply = rec.run_apply,
                      !.temporary = rec.temporary]),
     scid_gen |-> gen + 1]

\* break_load(): the row of a stored record, appended when the record is valid
break_load(rs, gen, rec) ==
    IF rec.type # "\\0" /\ rec.type \in BP_KNOWNS /\ rec.location # NULL /\ rec.line >= 0
    THEN [rows |-> Append(rs,
                      [BlankRow EXCEPT
                          !.file = rec.file,
                          !.line = IF rec.file = NULL THEN 0 ELSE rec.line,
                          !.scid = gen + 1, !.type = rec.type,
                          !.enabled = rec.enabled, !.display = rec.display,
                          !.func = rec.func, !.ignore = validate_column(rec.ignore),
                          !.cond = rec.cond, !.script = rec.script,
                          !.pending = rec.pending, !.location = rec.location,
                          !.run_apply = rec.run_apply,
                          !.temporary = rec.temporary]),
          scid_gen |-> gen + 1]
    ELSE [rows |-> rs, scid_gen |-> gen]

RECURSIVE LoadFrom(_, _, _)
LoadFrom(rs, gen, recs) ==
    IF recs = <<>> THEN [rows |-> rs, scid_gen |-> gen]
    ELSE LET one == break_load(rs, gen, Head(recs))
         IN  LoadFrom(one.rows, one.scid_gen, Tail(recs))

\* breaks_load(): breaks_delete_all(), then break_load() of every record
breaks_load(recs) == LoadFrom(<<>>, 0, recs)

(***************************************************************************)
(* Thread engine (scope/src/thread.c).  The threads are the rows of a list *)
(* store, in store order.  The handlers work on a record ts of the globals *)
(* of the engine: threads, thread_id (the id of the row selected in the    *)
(* view, NULL when none is), thread_state, thread_prompt and gdb_thread,   *)
(* with the commands the handler has sent and the errors it has reported.  *)
(* The columns no handler reads back (pid, group, target id, core) and the *)
(* markers in the editor are left out.                                     *)
(***************************************************************************)
\* enum ThreadState, in the order its values are compared in
ThreadStates ==
    <<"THREAD_BLANK", "THREAD_RUNNING", "THREAD_STOPPED", "THREAD_QUERY_FRAME",
      "THREAD_AT_SOURCE", "THREAD_AT_ASSEMBLER">>

ThreadRank(s) == CHOOSE i \in 1..Len(ThreadStates) : ThreadStates[i] = s

\* the texts of the column THREAD_STATE; a new row holds the empty string
RUNNING == <<"Running">>

STOPPED == <<"Stopped">>

\* a row that holds the id of the first thread whatever thread is announced
NewThread_first(tid) ==
    [id |-> <<"1">>, state |-> <<>>, file |-> NULL, line |-> 0, func |-> NULL,
     addr |-> NULL]

\* the row on_thread_created() appends
NewThread(tid) ==
    [id |-> tid, state |-> <<>>, file |-> NULL, line |-> 0, func |-> NULL,
     addr |-> NULL]

\* thread_query_frame()
thread_query_frame(token, tid) ==
    Command(<<"0", token>> \o tid, <<"-stack-info-frame">>)

\* on_thread_selection_changed(): it is the row selected, InvalidIter when the
\* selection is empty; debug is debug_state() & DS_DEBUG
on_thread_selection_changed(ts, it, debug) ==
    IF it = InvalidIter
    THEN [ts EXCEPT !.thread_id = NULL, !.thread_state = "THREAD_BLANK"]
    ELSE LET row == ts.threads[it]
             sel == [ts EXCEPT !.thread_id = row.id]
         IN  IF row.state # STOPPED
             THEN [sel EXCEPT !.thread_state =
                      IF row.state # <<>> THEN "THREAD_RUNNING" ELSE "THREAD_BLANK"]
             ELSE IF row.addr # NULL
             THEN [sel EXCEPT !.thread_state =
                      IF row.line # 0 THEN "THREAD_AT_SOURCE"
                      ELSE "THREAD_AT_ASSEMBLER"]
             ELSE IF debug
             THEN [sel EXCEPT !.thread_state = "THREAD_STOPPED",
                              !.sent = Append(@, thread_query_frame("4", row.id))]
             ELSE [sel EXCEPT !.thread_state = "THREAD_QUERY_FRAME"]

\* utils_tree_set_cursor(): the selection changes unless the row is the one
\* selected already
utils_tree_set_cursor(ts, it, debug) ==
    IF ts.threads[it].id = ts.thread_id THEN ts
    ELSE on_thread_selection_changed(ts, it, debug)

\* a selection that never moves
auto_select_thread_idle(ts, debug) == ts

\* auto_select_thread(): the first row in state STOPPED, if any
auto_select_thread(ts, debug) ==
    LET it == model_find(ts.threads, "state", STOPPED)
    IN  IF it # InvalidIter THEN utils_tree_set_cursor(ts, it, debug) ELSE ts

\* set_gdb_thread()
set_gdb_thread(ts, tid, select, debug) ==
    LET set == [ts EXCEPT !.gdb_thread = tid]
        it == model_find(ts.threads, "id", tid)
    IN  IF ~select THEN set
        ELSE IF it = InvalidIter THEN [set EXCEPT !.errs = @ + 1]
        ELSE utils_tree_set_cursor(set, it, debug)

\* a count that goes down for every row that stops being shown as stopped,
\* whatever its state was
thread_iter_unmark_any(ts, it, gdata) ==
    LET stopped == IF ts.threads[it].state = STOPPED THEN 1 ELSE 0
    IN  [ts EXCEPT !.thread_prompt =
            IF gdata THEN @ - 1 ELSE @ + (1 - stopped)]

\* thread_iter_unmark(): the count of stopped threads; gdata is not NULL when
\* the row stops being a stopped one
thread_iter_unmark(ts, it, gdata) ==
    LET stopped == IF ts.threads[it].state = STOPPED THEN 1 ELSE 0
    IN  [ts EXCEPT !.thread_prompt =
            IF gdata THEN @ - stopped ELSE @ + (1 - stopped)]

\* thread_iter_running(): tid is NULL for the rows of "all"; keep is
\* pref_keep_exec_point
thread_iter_running(ts, it, tid, keep) ==
    LET row == ts.threads[it]
        running == IF keep THEN [row EXCEPT !.state = RUNNING]
                   ELSE [row EXCEPT !.state = RUNNING, !.file = NULL, !.line = 0,
                                    !.func = NULL, !.addr = NULL]
        own == IF tid = NULL THEN row.id ELSE tid
        set == [thread_iter_unmark(ts, it, TRUE) EXCEPT !.threads[it] = running]
    IN  IF ts.thread_id # NULL /\ own = ts.thread_id
        THEN [set EXCEPT !.thread_state = "THREAD_RUNNING"]
        ELSE set

\* the walk of store_foreach(store, thread_iter_running, NULL)
RECURSIVE RunningFrom(_, _, _)
RunningFrom(ts, it, keep) ==
    IF it > Len(ts.threads) THEN ts
    ELSE RunningFrom(thread_iter_running(ts, it, NULL, keep), it + 1, keep)

\* on_thread_running(): select is thread_select_on_running
on_thread_running(ts, tid, keep, select, debug) ==
    IF tid = NULL THEN [ts EXCEPT !.errs = @ + 1]
    ELSE LET was_stopped ==
                 ThreadRank(ts.thread_state) >= ThreadRank("THREAD_STOPPED")
             it == model_find(ts.threads, "id", tid)
             run == IF tid = <<"a", "l", "l">> THEN RunningFrom(ts, 1, keep)
                    ELSE IF it = InvalidIter THEN [ts EXCEPT !.errs = @ + 1]
                    ELSE thread_iter_running(ts, it, tid, keep)
         IN  IF select /\ was_stopped /\ run.thread_state = "THREAD_RUNNING"
             THEN auto_select_thread(run, debug)
             ELSE run

\* a frame that leaves the state of the row as it was
thread_parse_frame_stateless(ts, it, tid, frame) ==
    LET loc == parse_location(frame)
        addr == IF loc.addr = NULL THEN <<"?", "?">> ELSE loc.addr
        set == [ts EXCEPT
                   !.threads[it] = [@ EXCEPT !.file = loc.file, !.line = loc.line,
                                             !.func = loc.func, !.addr = addr]]
    IN  IF tid = ts.thread_id
        THEN [set EXCEPT !.thread_state =
                 IF loc.line # 0 THEN "THREAD_AT_SOURCE" ELSE "THREAD_AT_ASSEMBLER"]
        ELSE set

\* thread_parse_frame(): the location of the frame, the address "??" without
\* one
thread_parse_frame(ts, it, tid, frame) ==
    LET loc == parse_location(frame)
        addr == IF loc.addr = NULL THEN <<"?", "?">> ELSE loc.addr
        set == [thread_iter_unmark(ts, it, FALSE) EXCEPT
                   !.threads[it] = [@ EXCEPT !.file = loc.file, !.line = loc.line,
                                             !.state = STOPPED, !.func = loc.func,
                                             !.addr = addr]]
    IN  IF tid = ts.thread_id
        THEN [set EXCEPT !.thread_state =
                 IF loc.line # 0 THEN "THREAD_AT_SOURCE" ELSE "THREAD_AT_ASSEMBLER"]
        ELSE set

\* thread_iter_stopped(): sd is the tid of the notification (NULL for the rows
\* of "all") and the first row found
thread_iter_stopped(ts, sd, it) ==
    LET row == ts.threads[it]
        own == IF sd.tid = NULL THEN row.id ELSE sd.tid
        set == [ts EXCEPT !.thread_prompt =
                              IF row.state # STOPPED THEN @ + 1 ELSE @,
                          !.threads[it].state = STOPPED]
    IN  [ts |-> IF own = ts.thread_id /\ row.addr = NULL
                THEN [set EXCEPT !.thread_state = "THREAD_QUERY_FRAME"]
                ELSE set,
         sd |-> IF sd.found THEN sd ELSE [sd EXCEPT !.iter = it, !.found = TRUE]]

\* a walk that ends after the first row
StoppedFrom_first(ts, sd, it) ==
    IF it > Len(ts.threads) THEN [ts |-> ts, sd |-> sd]
    ELSE thread_iter_stopped(ts, sd, it)

\* the walk of store_foreach(store, thread_iter_stopped, &sd)
RECURSIVE StoppedFrom(_, _, _)
StoppedFrom(ts, sd, it) ==
    IF it > Len(ts.threads) THEN [ts |-> ts, sd |-> sd]
    ELSE LET one == thread_iter_stopped(ts, sd, it)
         IN  StoppedFrom(one.ts, one.sd, it + 1)

\* thread_node_stopped() on the values of a list of stopped threads
RECURSIVE NodesStopped(_, _, _)
NodesStopped(ts, sd, tids) ==
    IF tids = <<>> THEN [ts |-> ts, sd |-> sd]
    ELSE LET named == [sd EXCEPT !.tid = Head(tids)]
             it == model_find(ts.threads, "id", Head(tids))
             one == IF it = InvalidIter
                    THEN [ts |-> [ts EXCEPT !.errs = @ + 1], sd |-> named]
                    ELSE thread_iter_stopped(ts, named, it)
         IN  NodesStopped(one.ts, one.sd, Tail(tids))

\* on_thread_stopped(): msg holds the values of "thread-id", "frame" and
\* "stopped-threads" (stype is the type of that node, "NONE" without it; its
\* value is a tid, "all", or the list of the tids); select is
\* thread_select_on_stopped
on_thread_stopped(ts, msg, select, debug) ==
    LET it == IF msg.tid = NULL THEN InvalidIter
              ELSE model_find(ts.threads, "id", msg.tid)
        found == it # InvalidIter
        framed == IF msg.tid = NULL THEN [ts EXCEPT !.errs = @ + 1]
                  ELSE IF ~found THEN [ts EXCEPT !.errs = @ + 1]
                  ELSE IF msg.frame.ptype # "PT_ARRAY" THEN ts
                  ELSE thread_parse_frame(ts, it, msg.tid, msg.frame)
        sd0 == [tid |-> NULL, iter |-> it, found |-> found]
        all == msg.stype = "PT_VALUE" /\ msg.stopped = <<"a", "l", "l">>
        pass == IF msg.stype = "NONE"
                THEN [ts |-> [framed EXCEPT !.errs = @ + 1], sd |-> sd0]
                ELSE IF all
                THEN StoppedFrom(framed, sd0, 1)
                ELSE IF msg.stype = "PT_VALUE"
                THEN NodesStopped(framed, sd0, <<msg.stopped>>)
                ELSE NodesStopped(framed, sd0, msg.stopped)
    IN  IF /\ select
           /\ ThreadRank(pass.ts.thread_state) <= ThreadRank("THREAD_RUNNING")
           /\ pass.sd.found
        THEN utils_tree_set_cursor(pass.ts, pass.sd.iter, debug)
        ELSE pass.ts

\* a handler that starts the session at every thread
on_thread_created_always(ts, count, tid, debug) ==
    LET row == IF tid = NULL THEN [ts EXCEPT !.errs = @ + 1]
               ELSE [ts EXCEPT !.threads = Append(@, NewThread(tid)),
                               !.sent = Append(@, Command(<<"0", "4">>,
                                                   <<"-thread-info">> \o tid))]
    IN  [ts |-> IF tid # NULL /\ count + 1 = 1
                THEN set_gdb_thread(row, tid, TRUE, debug)
                ELSE row,
         thread_count |-> count + 1,
         startup |-> TRUE]

\* on_thread_created(): the row, the query for it, and the selection of the
\* first thread; the session starts when no thread was counted; a message
\* without id is counted and reported
on_thread_created(ts, count, tid, debug) ==
    LET row == IF tid = NULL THEN [ts EXCEPT !.errs = @ + 1]
               ELSE [ts EXCEPT !.threads = Append(@, NewThread(tid)),
                               !.sent = Append(@, Command(<<"0", "4">>,
                                                   <<"-thread-info">> \o tid))]
    IN  [ts |-> IF tid # NULL /\ count + 1 = 1
                THEN set_gdb_thread(row, tid, TRUE, debug)
                ELSE row,
         thread_count |-> count + 1,
         startup |-> count = 0]

\* on_thread_exited(): select is thread_select_on_exited; the view drops the
\* selection with the row that held it; the session shuts down when the count
\* of threads comes to zero
on_thread_exited(ts, count, tid, select, debug) ==
    LET lost == IF tid = ts.gdb_thread THEN [ts EXCEPT !.gdb_thread = NULL]
                ELSE ts
        it == model_find(ts.threads, "id", tid)
        was_selected == tid = ts.thread_id
        unmarked == thread_iter_unmark(lost, it, TRUE)
        removed == [unmarked EXCEPT !.threads = RemoveAt(@, it)]
        gone == IF was_selected
                THEN on_thread_selection_changed(removed, InvalidIter, debug)
                ELSE removed
        left == IF it = InvalidIter THEN [lost EXCEPT !.errs = @ + 1]
                ELSE IF was_selected /\ select THEN auto_select_thread(gone, debug)
                ELSE gone
    IN  [ts |-> IF count > 0 THEN left ELSE [left EXCEPT !.errs = @ + 1],
         thread_count |-> IF count > 0 THEN count - 1 ELSE count,
         shutdown |-> count = 1]

\* thread_parse(): a stopped thread takes the frame, another one runs
thread_parse(ts, tid, stopped, frame, keep) ==
    LET it == model_find(ts.threads, "id", tid)
    IN  IF it = InvalidIter THEN [ts EXCEPT !.errs = @ + 1]
        ELSE IF stopped
        THEN IF frame.ptype # "PT_ARRAY" THEN [ts EXCEPT !.errs = @ + 1]
             ELSE thread_parse_frame(ts, it, tid, frame)
        ELSE IF ts.threads[it].state # RUNNING
        THEN thread_iter_running(ts, it, tid, keep)
        ELSE ts

\* on_thread_frame(): the token of the reply is the tid
on_thread_frame(ts, token, frame, keep) == thread_parse(ts, token, TRUE, frame, keep)

\* thread_node_parse() on each node of the list of threads: a node gives the
\* tid, the state and the frame
RECURSIVE NodesParsed(_, _, _)
NodesParsed(ts, nodes, keep) ==
    IF nodes = <<>> THEN ts
    ELSE LET node == Head(nodes)
             one == IF node.tid = NULL \/ node.state = NULL
                    THEN [ts EXCEPT !.errs = @ + 1]
                    ELSE thread_parse(ts, node.tid,
                                      node.state # <<"running">>, node.frame, keep)
         IN  NodesParsed(one, Tail(nodes), keep)

\* thread_info_parse(): current is the value of "current-thread-id"
thread_info_parse(ts, nodes, current, select, keep, debug) ==
    LET parsed == NodesParsed(ts, nodes, keep)
    IN  IF current # NULL THEN set_gdb_thread(parsed, current, select, debug)
        ELSE parsed

\* threads_clear(): the view drops the selection with the rows
threads_clear(ts) ==
    [on_thread_selection_changed(ts, InvalidIter, FALSE) EXCEPT
        !.threads = <<>>,
        !.thread_prompt =
            @ - Cardinality({i \in 1..Len(ts.threads) : ts.threads[i].state = STOPPED}),
        !.gdb_thread = NULL]

(***************************************************************************)
(* Inputs.                                                                 *)
(***************************************************************************)
FileA == <<"/", "a">>

FileB == <<"/", "b">>

LocA2 == FileA \o <<":", "2">>

\* the numbers the debugger gives its breakpoints: they only grow, and one
\* of them has a smaller one as a textual prefix
BkptNumbers == (1..MaxBkpt) \cup {10 + MaxBkpt}

ParentIds == {itoa(n) : n \in BkptNumbers}

LowIds == {itoa(n) : n \in 1..MaxBkpt}

HighId == itoa(10 + MaxBkpt)

ChildOf(id) == id \o <<".", "1">>

\* number of the breakpoint an id belongs to
NumberOf(id) == atoi(id)

NodeBreak(id) ==
    [BlankNode EXCEPT !.number = id, !.type = <<"breakpoint">>,
        !.enabled = <<"y">>, !.disp = <<"keep">>, !.times = <<"0">>,
        !.original_location = LocA2, !.fullname = FileA, !.line = <<"2">>,
        !.func = <<"main">>, !.addr = <<"0x1">>]

NodeEdited(id) ==
    [NodeBreak(id) EXCEPT !.enabled = <<"n">>, !.cond = <<"c">>,
        !.ignore = <<"1">>, !.times = <<"1">>,
        !.script = "PT_ARRAY",
        !.script_items = << [ptype |-> "PT_VALUE", value |-> <<"s">>] >>]

NodePending(id) ==
    [BlankNode EXCEPT !.number = id, !.type = <<"breakpoint">>,
        !.enabled = <<"y">>, !.disp = <<"del">>, !.addr = <<"<PENDING>">>,
        !.pending = LocA2, !.original_location = LocA2]

NodeWatch(id) ==
    [BlankNode EXCEPT !.name = <<"wpt">>, !.number = id, !.exp = <<"x">>]

\* a tracepoint with a pass count
NodeTrace(id) ==
    [NodeBreak(id) EXCEPT !.type = <<"tracepoint">>, !.pass = <<"2">>]

\* one location of a breakpoint with several: a dotted id and no type
NodeChild(id) ==
    [BlankNode EXCEPT !.name = <<>>, !.number = ChildOf(id),
        !.enabled = <<"y">>, !.fullname = FileA, !.line = <<"2">>,
        !.func = <<"main">>, !.addr = <<"0x2">>]

\* an array without a number
NodeNoNumber == [BlankNode EXCEPT !.type = <<"breakpoint">>]

\* the row nodes of one message: one breakpoint or watchpoint, a breakpoint
\* and its location, a batch with a node that cannot be parsed, two rows
NodeLists ==
    UNION {{<<NodeBreak(id)>>, <<NodeWatch(id)>>} : id \in ParentIds}
    \cup {<<NodeTrace(id)>> : id \in LowIds}
    \cup UNION {{<<NodeEdited(id)>>, <<NodePending(id)>>, <<NodeChild(id)>>,
                 <<NodeBreak(id), NodeChild(id)>>, <<ValueNode, NodeBreak(id)>>,
                 <<NodeEdited(id), NodeWatch(HighId)>>} : id \in LowIds}
    \cup {<<NodeWatch(HighId), NodeNoNumber>>, <<NodeNoNumber, NodeBreak(<<"1">>)>>}
    \cup {<<[NodeBreak(<<"1">>) EXCEPT !.type = <<"hw breakpoint">>]>>,
          <<[NodeBreak(<<"1">>) EXCEPT !.type = <<"dprintf">>]>>,
          <<[BlankNode EXCEPT !.number = <<"1">>, !.type = <<"catchpoint">>,
                              !.enabled = <<"y">>, !.what = <<"x">>]>>}

\* the largest breakpoint number a message names
RECURSIVE MaxNumber(_)
MaxNumber(nodes) ==
    IF nodes = <<>> THEN 0
    ELSE LET n == IF Head(nodes).number = NULL THEN 0
                  ELSE NumberOf(Head(nodes).number)
             m == MaxNumber(Tail(nodes))
         IN  IF n > m THEN n ELSE m

\* the first breakpoint number a message names, 0 when it names none
RECURSIVE FirstNumber(_)
FirstNumber(nodes) ==
    IF nodes = <<>> THEN 0
    ELSE IF Head(nodes).ptype = "PT_ARRAY" /\ Head(nodes).number # NULL
         THEN NumberOf(Head(nodes).number)
         ELSE FirstNumber(Tail(nodes))

\* stored records of breaks_load()
BlankRecord ==
    [line |-> 0, type |-> "\\0", enabled |-> TRUE, pending |-> FALSE,
     run_apply |-> FALSE, temporary |-> FALSE, file |-> NULL, display |-> NULL,
     func |-> NULL, ignore |-> NULL, cond |-> NULL, script |-> NULL,
     location |-> NULL]

RecordBreak ==
    [BlankRecord EXCEPT !.line = 1, !.type = "b", !.run_apply = TRUE,
        !.file = FileA, !.display = <<"a", ":", "1">>,
        !.location = FileA \o <<":", "1">>]

RecordWatch ==
    [BlankRecord EXCEPT !.type = "w", !.enabled = FALSE, !.display = <<"x">>,
        !.cond = <<"c">>, !.location = <<"x">>]

\* a record of the type that the user had disabled and edited
RecordEdited(type) ==
    [RecordBreak EXCEPT !.type = type, !.enabled = FALSE, !.ignore = <<"3">>,
        !.cond = <<"e">>, !.script = <<"s">>]

Records ==
    {RecordBreak, RecordWatch,
     RecordEdited("b"), RecordEdited("t"), RecordEdited("w"),
     [RecordBreak EXCEPT !.cond = <<"p", "\"", "\\">>],
     [RecordBreak EXCEPT !.type = "h"],
     [RecordBreak EXCEPT !.type = "?"],
     [RecordBreak EXCEPT !.type = "\\0"],
     [RecordBreak EXCEPT !.location = NULL],
     [RecordBreak EXCEPT !.line = 2, !.location = <<"m">>, !.display = <<"m">>],
     [RecordBreak EXCEPT !.line = -1]}

RecordLists ==
    {<<>>} \cup {<<r>> : r \in Records}
    \cup {<<r, RecordBreak>> : r \in Records}

\* an insert reply names one new breakpoint and its locations
SameNumber(nodes) ==
    \A i \in 1..Len(nodes) :
        nodes[i].number # NULL => NumberOf(nodes[i].number) = FirstNumber(nodes)

InsertReplies == {nodes \in NodeLists : SameNumber(nodes)}

\* the body of a listing: any row nodes, or none
ListBodies == NodeLists \cup {<<>>}

AllIds == ParentIds \cup {ChildOf(id) : id \in ParentIds}

\* the thread ids the debugger hands out
Tids == {<<"1">>, <<"2">>}

\* the frame of a thread stopped in a source file, and of one stopped where
\* the debugger knows the address only
FrameSource ==
    [BlankNode EXCEPT !.name = <<"frame">>, !.fullname = FileA, !.line = <<"2">>,
                      !.func = <<"f">>, !.addr = <<"0", "x", "1">>]

FrameAssembler == [BlankNode EXCEPT !.name = <<"frame">>, !.addr = <<"0", "x", "2">>]

\* no array is named frame
NoFrame == [BlankNode EXCEPT !.name = <<"frame">>, !.ptype = "NONE"]

Frames == {NoFrame, FrameSource, FrameAssembler}

\* what a handler of the thread engine is given: the values of the message,
\* the preferences (keep is pref_keep_exec_point, select the thread_select_
\* preference of the handler) and debug_state() & DS_DEBUG
ThreadMessage(tid, frame, keep, select, debug) ==
    [tid |-> tid, frame |-> frame, stype |-> "NONE", stopped |-> NULL,
     nodes |-> <<>>, keep |-> keep, select |-> select, debug |-> debug]

\* the *stopped notifications: the thread that stopped, its frame, and the
\* node "stopped-threads" (none, "all", one tid, a list of tids)
StoppedMessages ==
    LET all == <<"PT_VALUE", <<"a", "l", "l">>>>
        one == <<"PT_VALUE", <<"1">>>>
        list == <<"PT_ARRAY", <<<<"2">>, <<"1">>>>>>
        none == <<"NONE", NULL>>
    IN  {<<<<"1">>, FrameSource, all>>, <<<<"2">>, NoFrame, all>>,
         <<NULL, NoFrame, all>>, <<<<"1">>, FrameAssembler, one>>,
         <<<<"1">>, NoFrame, one>>, <<<<"2">>, FrameSource, list>>,
         <<<<"1">>, FrameSource, none>>, <<NULL, NoFrame, none>>}

\* the lists of threads of a reply to -thread-info
ThreadNodes ==
    {<<>>,
     <<[tid |-> <<"1">>, state |-> <<"running">>, frame |-> NoFrame]>>,
     <<[tid |-> <<"1">>, state |-> <<"stopped">>, frame |-> FrameSource]>>,
     <<[tid |-> <<"2">>, state |-> <<"stopped">>, frame |-> NoFrame]>>,
     <<[tid |-> <<"1">>, state |-> NULL, frame |-> NoFrame],
       [tid |-> <<"2">>, state |-> <<"stopped">>, frame |-> FrameAssembler]>>}

(***************************************************************************)
(* State.                                                                  *)
(***************************************************************************)
VARIABLES
    rows,         \* the list store, in store order
    scid_gen,     \* generator of local sequence ids
    break_async,  \* -1 not asked, 0 no breakpoint notifications, 1 notified
    state,        \* debug_state()
    queue,        \* commands whose reply the engine is still to get, in order
    sent,         \* commands sent by the last handler
    bkpt_count,   \* the last breakpoint number the debugger handed out
    crashed,      \* the process died
    last,         \* the last handler run and what it was given
    toggles,      \* the enabled toggles the user made in a row on one row
    edit,         \* the last handler was breaks_delta(): the edit, the rows before
    steps_left,   \* handler runs left in the behaviour
    threads,      \* the list store of the threads, in store order
    thread_count, \* threads created and not exited
    thread_id,    \* the id of the thread selected in the view
    thread_state, \* the execution state of the selected thread
    thread_prompt, \* the count of stopped threads
    gdb_thread,   \* the thread the debugger has current
    fired         \* the startups and shutdowns of the session, in order

thread_vars ==
    <<threads, thread_count, thread_id, thread_state, thread_prompt, gdb_thread,
      fired>>

vars == <<rows, scid_gen, break_async, state, queue, sent, bkpt_count, crashed,
          last, toggles, edit, steps_left, thread_vars>>

Last(op, token, it, errs, beep, nodes) ==
    [op |-> op, token |-> token, it |-> it, errs |-> errs, beep |-> beep,
     nodes |-> nodes]

\* the handler of the reply to a command
ReplyKind(cmd) ==
    IF cmd.text[1] = "-break-insert" THEN "inserted"
    ELSE IF cmd.text[1] = "-break-" /\ cmd.text[2] \in {"insert", "watch"}
         THEN "inserted"
    ELSE IF cmd.text[1] = "-break-list" THEN "list"
    ELSE "done"

\* a command whose reply comes back to the breakpoint engine
Routed(cmd) == ReplyToken(cmd.prefix) # NULL \/ cmd.text[1] = "-break-insert"

\* the commands join the queue of unanswered ones; past MaxQueue the debugger
\* has answered with an error, which no handler of the engine sees
RECURSIVE Enqueue(_, _)
Enqueue(q, cmds) ==
    IF cmds = <<>> THEN q
    ELSE IF Routed(Head(cmds)) /\ Len(q) < MaxQueue
         THEN Enqueue(Append(q, [token |-> ReplyToken(Head(cmds).prefix),
                                 kind |-> ReplyKind(Head(cmds))]),
                      Tail(cmds))
         ELSE Enqueue(q, Tail(cmds))

Max(a, b) == IF a > b THEN a ELSE b

\* no toggle of the user is on record
NoToggles == [n |-> 0, scid |-> 0, orig |-> FALSE]

\* an edit on record: the arguments of breaks_delta() and the rows before it
Edit(real_path, start, delta, active, rs) ==
    [path |-> real_path, start |-> start, delta |-> delta, active |-> active,
     rows |-> rs]

\* the last handler was not breaks_delta(); prev is the handler before it
NoEdit ==
    [path |-> NULL, start |-> 0, delta |-> 0, active |-> FALSE, rows |-> <<>>,
     prev |-> Edit(NULL, 0, 0, FALSE, <<>>)]

\* the plugin is loaded: an empty store, no session
Start(n) ==
    /\ rows = <<>>
    /\ scid_gen = 0
    /\ break_async = -1
    /\ state = "DS_INACTIVE"
    /\ queue = <<>>
    /\ sent = <<>>
    /\ bkpt_count = 0
    /\ crashed = FALSE
    /\ last = Last("init", NULL, 0, 0, FALSE, <<>>)
    /\ toggles = NoToggles
    /\ edit = NoEdit
    /\ steps_left = n
    /\ threads = <<>>
    /\ thread_count = 0
    /\ thread_id = NULL
    /\ thread_state = "THREAD_BLANK"
    /\ thread_prompt = 0
    /\ gdb_thread = NULL
    /\ fired = <<>>

Init == Start(MaxSteps)

\* a handler can run: the process lives and the behaviour goes on
Running == ~crashed /\ steps_left > 0

\* the confirmations of enable and disable commands for the row scid that are
\* still to come
Confirmations(q, scid) ==
    SelectSeq(q, LAMBDA e : /\ e.kind = "done"
                            /\ e.token \in {<<"0">> \o itoa(scid), <<"1">> \o itoa(scid)})

\* the record of the toggles: a toggle of the row toggled last counts on, a
\* toggle of another row starts at one with the flag that row had; the
\* confirmation of a toggle on record and a change of debug_state() leave the
\* record alone, any other handler ends it, and so does a command that the
\* debugger will not confirm
Toggles(op, it) ==
    IF op = "enabled_toggled"
    THEN LET scid == rows[it].scid
             on   == toggles.n \in {1, 2} /\ toggles.scid = scid
         IN  IF sent' # <<>> /\ Len(queue') = Len(queue) THEN NoToggles
             ELSE IF on /\ toggles.n = 1
             THEN [toggles EXCEPT !.n = 2]
             ELSE [n |-> 1, scid |-> scid, orig |-> rows[it].enabled]
    ELSE IF op = "state" THEN toggles
    ELSE IF op = "done" /\ toggles.n > 0
                        /\ Confirmations(<<Head(queue)>>, toggles.scid) # <<>>
         THEN toggles
    ELSE NoToggles

\* the record of the handler that ran
Ran(op, token, it, errs, beep) ==
    /\ last' = Last(op, token, it, errs, beep, <<>>)
    /\ toggles' = Toggles(op, it)
    /\ edit' = NoEdit
    /\ steps_left' = steps_left - 1
    /\ UNCHANGED thread_vars

\* the record of a handler that ran on the row nodes of a message
RanOn(op, token, errs, nodes) ==
    /\ last' = Last(op, token, 0, errs, FALSE, nodes)
    /\ toggles' = NoToggles
    /\ edit' = NoEdit
    /\ steps_left' = steps_left - 1
    /\ UNCHANGED thread_vars

\* the store and the outbox after a handler; the guards keep the model finite
Store(rs, gen, snt, q) ==
    /\ Len(rs) <= MaxRows
    /\ gen <= MaxScid
    /\ rows' = rs
    /\ scid_gen' = gen
    /\ sent' = snt
    /\ queue' = Enqueue(q, snt)

\* the outcomes of a pass, given for each way an undefined read or free can
\* end: one if it came to none, else one for each way
Outcomes(pass) ==
    IF pass["survive"].ubsite THEN {pass[ub] : ub \in UndefinedReads}
    ELSE {pass["survive"]}

\* the state after a pass over the nodes of a message
Parsed(ps, q, nodes) ==
    /\ Store(ps.rows, ps.scid_gen, ps.sent, q)
    /\ crashed' = ps.crashed
    /\ bkpt_count' = Max(bkpt_count, MaxNumber(nodes))

(***************************************************************************)
(* Messages of the debugger.                                               *)
(***************************************************************************)
\* the reply is ^error: no handler of the engine runs
ReplyError ==
    /\ Running /\ queue # <<>>
    /\ queue' = Tail(queue)
    /\ sent' = <<>>
    /\ Ran("error", Head(queue).token, 0, 0, FALSE)
    /\ UNCHANGED <<rows, scid_gen, break_async, state, bkpt_count, crashed>>

ReplyDone ==
    /\ Running /\ queue # <<>> /\ Head(queue).kind = "done"
    /\ LET r == on_break_done(rows, Head(queue).token)
       IN  /\ Store(r.rows, scid_gen, r.sent, Tail(queue))
           /\ Ran("done", Head(queue).token, 0, r.errs, FALSE)
    /\ UNCHANGED <<break_async, state, bkpt_count, crashed>>

\* the reply to an insert or watch command names a breakpoint made for it
ReplyInserted ==
    /\ Running /\ queue # <<>> /\ Head(queue).kind = "inserted"
    /\ \E nodes \in InsertReplies :
          /\ FirstNumber(nodes) = 0 \/ FirstNumber(nodes) > bkpt_count
          /\ \E ps \in Outcomes([ub \in UndefinedReads |->
                   on_break_inserted(rows, scid_gen, Head(queue).token, nodes, ub)]) :
                /\ Parsed(ps, Tail(queue), nodes)
                /\ RanOn("inserted", Head(queue).token, ps.errs, nodes)
    /\ UNCHANGED <<break_async, state>>

\* an insert reply to a command of another module: token "0" after a
\* temporary breakpoint to run to, the empty token to parse and discard
Inserted ==
    /\ Running /\ state # "DS_INACTIVE"
    /\ \E token \in {<<"0">>, <<>>}, nodes \in InsertReplies :
          /\ FirstNumber(nodes) = 0 \/ FirstNumber(nodes) > bkpt_count
          /\ \E ps \in Outcomes([ub \in UndefinedReads |->
                   on_break_inserted(rows, scid_gen, token, nodes, ub)]) :
                /\ Parsed(ps, queue, nodes)
                /\ RanOn("inserted", token, ps.errs, nodes)
    /\ UNCHANGED <<break_async, state>>

ReplyList ==
    /\ Running /\ queue # <<>> /\ Head(queue).kind = "list"
    /\ \E nodes \in ListBodies :
          \E ps \in Outcomes([ub \in UndefinedReads |->
                on_break_list(rows, scid_gen, Head(queue).token, nodes, ub)]) :
             /\ Parsed(ps, Tail(queue), nodes)
             /\ RanOn("list", Head(queue).token, ps.errs, nodes)
    /\ UNCHANGED <<break_async, state>>

\* a listing without token: the reply to -break-info or to breaks_update()
List ==
    /\ Running /\ state # "DS_INACTIVE"
    /\ \E nodes \in ListBodies :
          \E ps \in Outcomes([ub \in UndefinedReads |->
                on_break_list(rows, scid_gen, NULL, nodes, ub)]) :
             /\ Parsed(ps, queue, nodes)
             /\ RanOn("list", NULL, ps.errs, nodes)
    /\ UNCHANGED <<break_async, state>>

Created ==
    /\ Running /\ state # "DS_INACTIVE"
    /\ \E nodes \in NodeLists :
          \E ps \in Outcomes([ub \in UndefinedReads |->
                on_break_created(rows, scid_gen, nodes, ub)]) :
             /\ Parsed(ps, queue, nodes)
             /\ RanOn("created", NULL, ps.errs, nodes)
    /\ break_async' = 1
    /\ UNCHANGED state

Deleted ==
    /\ Running /\ state # "DS_INACTIVE"
    /\ \E id \in AllIds :
          /\ Store(on_break_deleted(rows, id), scid_gen, <<>>, queue)
          /\ Ran("deleted", id, 0, 0, FALSE)
    /\ break_async' = 1
    /\ UNCHANGED <<state, bkpt_count, crashed>>

(***************************************************************************)
(* Actions of the user.                                                    *)
(***************************************************************************)
\* a row whose columns and menu entries work on it: not a dotted one
Undotted(row) == row.id = NULL \/ strchr(row.id, ".") = 0

EnabledToggled ==
    /\ Running
    /\ \E it \in 1..Len(rows) :
          LET r == on_break_enabled_toggled(rows, it, state)
          IN  /\ Store(r.rows, scid_gen, r.sent, queue)
              /\ Ran("enabled_toggled", rows[it].id, it, 0, r.beep)
    /\ UNCHANGED <<break_async, state, bkpt_count, crashed>>

ColumnEdited ==
    /\ Running
    /\ \E it \in 1..Len(rows), index \in 0..2, new_text \in {<<>>, <<"1">>} :
          /\ Undotted(rows[it])
          /\ LET r == on_break_column_edited(rows, it, index, new_text, state)
             IN  /\ Store(r.rows, scid_gen, r.sent, queue)
                 /\ Ran("column_edited", rows[it].id, it, 0, r.beep)
    /\ UNCHANGED <<break_async, state, bkpt_count, crashed>>

\* what strchr() can read in the id of the selected row, which g_free() has
\* given back before: the id as it was, or what the allocator left there
FreedReads(id) == IF id = NULL THEN {NULL} ELSE {id, <<>>, <<".">>}

\* break_menu_extra_state(): the extra states of the selected row
break_menu_extra_state(row, freed) ==
    (IF row.id = NULL THEN {"DS_EXTRA_1"} ELSE {})
    \cup (IF row.file # NULL THEN {"DS_EXTRA_2"} ELSE {})
    \cup (IF row.id = NULL \/ strchr(freed, ".") = 0 THEN {"DS_EXTRA_3"} ELSE {})

\* on_break_delete(), offered in the DS_DELETABLE states
Delete ==
    /\ Running /\ state \in DS_NOT_BUSY
    /\ \E it \in 1..Len(rows) : \E freed \in FreedReads(rows[it].id) :
          /\ "DS_EXTRA_3" \in break_menu_extra_state(rows[it], freed)
          /\ LET r == break_delete(rows, it, state)
             IN  /\ Store(r.rows, scid_gen, r.sent, queue)
                 /\ Ran("delete", rows[it].id, it, 0, r.beep)
    /\ UNCHANGED <<break_async, state, bkpt_count, crashed>>

\* on_break_run_apply(): the check item of the menu gives the flag
on_break_run_apply(rs, it, active) == [rs EXCEPT ![it].run_apply = active]

\* on_break_run_apply(), offered in the DS_RUN_APPLY states; the item was set
\* to the flag of the row by on_break_menu_show() and the user changes it
RunApply ==
    /\ Running
    /\ \E it \in 1..Len(rows) : \E freed \in FreedReads(rows[it].id) :
          /\ "DS_EXTRA_3" \in break_menu_extra_state(rows[it], freed)
          /\ Store(on_break_run_apply(rows, it, ~rows[it].run_apply), scid_gen,
                   <<>>, queue)
          /\ Ran("run_apply", rows[it].id, it, 0, FALSE)
    /\ UNCHANGED <<break_async, state, bkpt_count, crashed>>

\* the menu opens on a row with an id and the read of the freed id ends the
\* process
MenuAbort ==
    /\ Running
    /\ \E it \in 1..Len(rows) :
          /\ rows[it].id # NULL
          /\ Store(rows, scid_gen, <<>>, queue)
          /\ Ran("menu", rows[it].id, it, 0, FALSE)
    /\ crashed' = TRUE
    /\ UNCHANGED <<break_async, state, bkpt_count>>

Toggle ==
    /\ Running
    /\ \E doc_line \in 1..MaxLine :
          LET r == on_break_toggle(rows, scid_gen, FileA, doc_line, state)
          IN  /\ Store(r.rows, r.scid_gen, r.sent, queue)
              /\ Ran("toggle", NULL, doc_line, 0, FALSE)
    /\ UNCHANGED <<break_async, state, bkpt_count, crashed>>

\* the active argument of breaks_delta(): there is a session
delta_active(st) == st # "DS_INACTIVE"

\* lines were added to or removed from a source document: breaks_delta()
Delta ==
    /\ Running
    /\ \E real_path \in {FileA, FileB}, start \in 0..(MaxDocLine - 1),
          delta \in ((0 - MaxDelta)..MaxDelta) \ {0} :
          LET active == delta_active(state)
          IN  \E r \in Outcomes([ub \in UndefinedReads |->
                     breaks_delta(rows, real_path, start, delta, active, ub)]) :
                 /\ \A j \in 1..Len(r.rows) : r.rows[j].line <= MaxDocLine
                 /\ Store(r.rows, scid_gen, <<>>, queue)
                 /\ crashed' = r.crashed
                 /\ last' = Last("delta", real_path, start, 0, FALSE, <<>>)
                 /\ toggles' = NoToggles
                 /\ edit' = [path |-> real_path, start |-> start, delta |-> delta,
                             active |-> active, rows |-> rows,
                             prev |-> Edit(edit.path, edit.start, edit.delta,
                                           edit.active, edit.rows)]
                 /\ steps_left' = steps_left - 1
    /\ UNCHANGED <<break_async, state, bkpt_count, thread_vars>>

\* on_break_apply(), offered in the DS_APPLIABLE states: from the menu, or
\* with the shift key for the thread selected then
Apply ==
    /\ Running /\ state \in DS_SENDABLE
    /\ \E it \in 1..Len(rows), menu_item \in BOOLEAN, thread \in {NULL, <<"1">>} :
          /\ rows[it].id = NULL
          /\ menu_item => thread = NULL
          /\ LET snt == IF menu_item \/ thread # NULL
                        THEN <<break_apply(rows[it], ~menu_item, thread)>>
                        ELSE <<>>
             IN  /\ Store(rows, scid_gen, snt, queue)
                 /\ Ran("apply", itoa(rows[it].scid), it, 0, snt = <<>>)
    /\ UNCHANGED <<break_async, state, bkpt_count, crashed>>

\* on_break_refresh(), offered in the DS_SENDABLE states
Refresh ==
    /\ Running /\ state \in DS_SENDABLE
    /\ Store(rows, scid_gen, << Command(<<"0", "2">>, <<"-break-list">>) >>, queue)
    /\ Ran("refresh", NULL, 0, 0, FALSE)
    /\ UNCHANGED <<break_async, state, bkpt_count, crashed>>

Load ==
    /\ Running /\ state = "DS_INACTIVE"
    /\ \E recs \in RecordLists :
          LET r == breaks_load(recs)
          IN  /\ Store(r.rows, r.scid_gen, <<>>, queue)
              /\ RanOn("load", NULL, 0, recs)
    /\ UNCHANGED <<break_async, state, bkpt_count, crashed>>

(***************************************************************************)
(* Notifications and replies to the thread engine.                         *)
(***************************************************************************)
\* the globals of the thread engine before a handler
ThreadGlobals ==
    [threads |-> threads, thread_id |-> thread_id, thread_state |-> thread_state,
     thread_prompt |-> thread_prompt, gdb_thread |-> gdb_thread, sent |-> <<>>,
     errs |-> 0]

\* the globals of the thread engine after a handler
Threads(ts, count, log) ==
    /\ threads' = ts.threads
    /\ thread_id' = ts.thread_id
    /\ thread_state' = ts.thread_state
    /\ thread_prompt' = ts.thread_prompt
    /\ gdb_thread' = ts.gdb_thread
    /\ thread_count' = count
    /\ fired' = log

\* the record of a handler that leaves the toggles and the edit behind
Recorded(l) ==
    /\ last' = l
    /\ toggles' = NoToggles
    /\ edit' = NoEdit
    /\ steps_left' = steps_left - 1

\* a handler of the thread engine ran on msg; its commands are answered to
\* the thread engine
ThreadRan(op, ts, count, log, msg) ==
    /\ Threads(ts, count, log)
    /\ sent' = ts.sent
    /\ Recorded(Last(op, msg.tid, 0, ts.errs, FALSE, <<msg>>))
    /\ UNCHANGED <<scid_gen, break_async, state, queue, bkpt_count, crashed>>

\* =thread-created of a thread the debugger has not announced yet;
\* breaks_reset() at the startup
ThreadCreated ==
    /\ Running /\ state # "DS_INACTIVE"
    /\ \E tid \in Tids \ {threads[i].id : i \in 1..Len(threads)} :
          LET debug == FALSE
              r == on_thread_created(ThreadGlobals, thread_count, tid, debug)
          IN  /\ rows' = IF r.startup
                         THEN [i \in 1..Len(rows) |-> [rows[i] EXCEPT !.times = 0]]
                         ELSE rows
              /\ ThreadRan("thread_created", r.ts, r.thread_count,
                           IF r.startup THEN Append(fired, "startup") ELSE fired,
                           ThreadMessage(tid, NoFrame, FALSE, FALSE, debug))

\* =thread-exited of a thread the debugger has announced
ThreadExited ==
    /\ Running /\ state # "DS_INACTIVE"
    /\ \E tid \in {threads[i].id : i \in 1..Len(threads)}, select, debug \in BOOLEAN :
          LET r == on_thread_exited(ThreadGlobals, thread_count, tid, select, debug)
          IN  ThreadRan("thread_exited", r.ts, r.thread_count,
                        IF r.shutdown THEN Append(fired, "shutdown") ELSE fired,
                        ThreadMessage(tid, NoFrame, FALSE, select, debug))
    /\ UNCHANGED rows

\* =thread-created without id, or with the id of a thread there is
ThreadCreatedStray ==
    /\ Running /\ state # "DS_INACTIVE"
    /\ \E tid \in {NULL} \cup {threads[i].id : i \in 1..Len(threads)} :
          LET debug == FALSE
              r == on_thread_created(ThreadGlobals, thread_count, tid, debug)
          IN  /\ rows' = IF r.startup
                         THEN [i \in 1..Len(rows) |-> [rows[i] EXCEPT !.times = 0]]
                         ELSE rows
              /\ ThreadRan("thread_created", r.ts, r.thread_count,
                           IF r.startup THEN Append(fired, "startup") ELSE fired,
                           ThreadMessage(tid, NoFrame, FALSE, FALSE, debug))

\* =thread-exited without id, or with the id of no thread there is
ThreadExitedStray ==
    /\ Running /\ state # "DS_INACTIVE"
    /\ \E tid \in {NULL} \cup (Tids \ {threads[i].id : i \in 1..Len(threads)}) :
          LET r == on_thread_exited(ThreadGlobals, thread_count, tid, FALSE, FALSE)
          IN  ThreadRan("thread_exited", r.ts, r.thread_count,
                        IF r.shutdown THEN Append(fired, "shutdown") ELSE fired,
                        ThreadMessage(tid, NoFrame, FALSE, FALSE, FALSE))
    /\ UNCHANGED rows

\* *running
ThreadRunning ==
    /\ Running /\ state # "DS_INACTIVE"
    /\ \E tid \in Tids \cup {<<"a", "l", "l">>}, keep, select, debug \in BOOLEAN :
          ThreadRan("thread_running",
                    on_thread_running(ThreadGlobals, tid, keep, select, debug),
                    thread_count, fired,
                    ThreadMessage(tid, NoFrame, keep, select, debug))
    /\ UNCHANGED rows

\* *stopped of a thread that hit a breakpoint: on_break_stopped() with the
\* number and the disposition of the breakpoint, which ends in
\* on_thread_stopped(); the notification names thread 1, its frame and all
\* threads as stopped, and selecting on stopped is off
Stopped ==
    /\ Running /\ state # "DS_INACTIVE"
    /\ \E id \in AllIds, disp \in {<<"dis">>, <<"del">>, <<"keep">>} :
          LET msg == [ThreadMessage(<<"1">>, FrameSource, FALSE, FALSE, FALSE) EXCEPT
                         !.stype = "PT_VALUE", !.stopped = <<"a", "l", "l">>]
              ts == on_thread_stopped(ThreadGlobals, msg, FALSE, FALSE)
          IN  /\ Store(on_break_stopped(rows, break_async, id, disp), scid_gen,
                       ts.sent, queue)
              /\ Threads(ts, thread_count, fired)
              /\ Recorded(Last("stopped", id, 0, ts.errs, FALSE,
                               <<msg, [disp |-> disp, async |-> break_async]>>))
    /\ UNCHANGED <<break_async, state, bkpt_count, crashed>>

\* *stopped without the number of a breakpoint: on_break_stopped() leaves
\* the rows alone and calls on_thread_stopped()
ThreadStopped ==
    /\ Running /\ state # "DS_INACTIVE"
    /\ \E m \in StoppedMessages, select, debug \in BOOLEAN :
          LET msg == [ThreadMessage(m[1], m[2], FALSE, select, debug) EXCEPT
                         !.stype = m[3][1], !.stopped = m[3][2]]
          IN  ThreadRan("thread_stopped",
                        on_thread_stopped(ThreadGlobals, msg, select, debug),
                        thread_count, fired, msg)
    /\ UNCHANGED rows

\* the reply to -thread-info: on_thread_info() selects by thread_select_follow,
\* on_thread_follow() always
ThreadInfo ==
    /\ Running /\ state # "DS_INACTIVE"
    /\ \E nodes \in ThreadNodes, current \in {NULL, <<"2">>},
          select, debug \in BOOLEAN :
          ThreadRan("thread_info",
                    thread_info_parse(ThreadGlobals, nodes, current, select, FALSE,
                                      debug),
                    thread_count, fired,
                    [ThreadMessage(current, NoFrame, FALSE, select, debug) EXCEPT
                        !.nodes = nodes])
    /\ UNCHANGED rows

\* the reply to -stack-info-frame
ThreadFrame ==
    /\ Running /\ state # "DS_INACTIVE"
    /\ \E token \in Tids, frame \in Frames :
          ThreadRan("thread_frame",
                    on_thread_frame(ThreadGlobals, token, frame, FALSE),
                    thread_count, fired,
                    ThreadMessage(token, frame, FALSE, FALSE, FALSE))
    /\ UNCHANGED rows

\* the user selects another row of the view, or none
ThreadSelect ==
    /\ Running
    /\ \E it \in 0..Len(threads), debug \in BOOLEAN :
          /\ (IF it = InvalidIter THEN NULL ELSE threads[it].id) # thread_id
          /\ ThreadRan("thread_select",
                       on_thread_selection_changed(ThreadGlobals, it, debug),
                       thread_count, fired,
                       ThreadMessage(NULL, NoFrame, FALSE, FALSE, debug))
    /\ UNCHANGED rows

(***************************************************************************)
(* The session.                                                            *)
(***************************************************************************)
\* the program is loaded into a new debugger: breaks_apply()
Connect ==
    /\ Running /\ state = "DS_INACTIVE"
    /\ state' = "DS_READY"
    /\ Store(rows, scid_gen, breaks_apply(rows), queue)
    /\ Ran("connect", NULL, 0, 0, FALSE)
    /\ UNCHANGED <<break_async, bkpt_count, crashed>>

\* breaks_query_async()
QueryAsync ==
    /\ Running /\ state # "DS_INACTIVE" /\ break_async = -1
    /\ break_async' = 0
    /\ Store(rows, scid_gen, <<>>, queue)
    /\ Ran("query_async", NULL, 0, 0, FALSE)
    /\ UNCHANGED <<state, bkpt_count, crashed>>

\* the program runs, stops, or the debugger is busy
StateChange ==
    /\ Running /\ state # "DS_INACTIVE"
    /\ \E st \in ActiveStates \ {state} :
          state' = st
    /\ sent' = <<>>
    /\ Ran("state", NULL, 0, 0, FALSE)
    /\ UNCHANGED <<rows, scid_gen, break_async, queue, bkpt_count, crashed>>

\* the debugger exits: breaks_clear() and threads_clear(); what it was still
\* to answer is lost
Teardown ==
    /\ Running /\ state # "DS_INACTIVE"
    /\ state' = "DS_INACTIVE"
    /\ Store(breaks_clear(rows), scid_gen, <<>>, <<>>)
    /\ bkpt_count' = 0
    /\ Threads(threads_clear(ThreadGlobals), 0, <<>>)
    /\ Recorded(Last("clear", NULL, 0, 0, FALSE, <<>>))
    /\ UNCHANGED <<break_async, crashed>>

Next ==
    \/ ReplyError \/ ReplyDone \/ ReplyInserted \/ Inserted \/ ReplyList \/ List
    \/ Created \/ Deleted \/ Stopped
    \/ EnabledToggled \/ ColumnEdited \/ Delete \/ Toggle \/ Delta \/ Apply \/ Refresh
    \/ RunApply \/ MenuAbort \/ Load
    \/ ThreadCreated \/ ThreadExited \/ ThreadRunning \/ ThreadStopped
    \/ ThreadInfo \/ ThreadFrame \/ ThreadSelect
    \/ Connect \/ QueryAsync \/ StateChange \/ Teardown

Spec == Init /\ [][Next]_vars

(***************************************************************************)
(* Longer behaviours of a part of the handlers.                            *)
(***************************************************************************)
\* listings, and the messages that make the rows they find
InitList == Start(MaxListSteps)

NextList ==
    \/ Load \/ Connect \/ Toggle \/ ReplyInserted \/ Created
    \/ Refresh \/ ReplyList \/ List

SpecList == InitList /\ [][NextList]_vars

\* replies to insert commands, and the commands they answer
InitInsert == Start(MaxInsertSteps)

NextInsert ==
    \/ Load \/ Connect \/ Apply \/ Delete \/ Created \/ ReplyInserted \/ Inserted
    \/ EnabledToggled \/ ReplyDone \/ ReplyError

SpecInsert == InitInsert /\ [][NextInsert]_vars

\* edits of a document in and out of a session
InitDelta == Start(MaxDeltaSteps)

NextDelta ==
    \/ Load \/ Toggle \/ Connect \/ Created \/ Teardown \/ Delta

SpecDelta == InitDelta /\ [][NextDelta]_vars

\* the locations of a breakpoint from their message to the next session
NextChild ==
    \/ Load \/ Connect \/ Created \/ RunApply \/ Delete \/ Teardown

SpecChild == Start(MaxChildSteps) /\ [][NextChild]_vars

\* confirmations, and what can remove a row before they come
NextDone ==
    \/ Connect \/ Created \/ EnabledToggled \/ Delete \/ Deleted \/ ReplyDone

SpecDone == Start(MaxDoneSteps) /\ [][NextDone]_vars

\* the thread engine through the runs of the program in a session
NextThread ==
    \/ Connect \/ ThreadCreated \/ ThreadExited \/ ThreadRunning \/ ThreadStopped
    \/ ThreadInfo \/ ThreadFrame \/ ThreadSelect \/ Teardown

SpecThread == Start(MaxThreadSteps) /\ [][NextThread]_vars

\* created and exited notifications that the debugger's protocol excludes
\* among those it allows
NextStray ==
    \/ Connect \/ ThreadCreated \/ ThreadExited \/ ThreadCreatedStray
    \/ ThreadExitedStray \/ ThreadSelect \/ Teardown

SpecStray == Start(MaxStraySteps) /\ [][NextStray]_vars

\* rows with an id, kept and discardable, and what removes a breakpoint
NextRemove ==
    \/ Load \/ Connect \/ ReplyInserted \/ Created \/ Delete \/ ReplyDone
    \/ Deleted \/ Stopped

SpecRemove == Start(MaxRemoveSteps) /\ [][NextRemove]_vars

\* the enabled toggle in and out of a session
InitToggle == Start(MaxToggleSteps)

NextToggle ==
    \/ Load \/ Connect \/ StateChange \/ Created \/ EnabledToggled
    \/ ReplyDone \/ ReplyError \/ Teardown

SpecToggle == InitToggle /\ [][NextToggle]_vars

(***************************************************************************)
(* Properties.                                                             *)
(***************************************************************************)
HasId(row) == row.id # NULL /\ row.id # <<>>

ListIdempotent ==
    (last.op = "list" /\ ~crashed) =>
        on_break_list(rows, scid_gen, last.token, last.nodes, "survive").rows = rows

\* the listing names the id: one of its row nodes carries it as number
Named(nodes, id) ==
    /\ id # NULL
    /\ \E k \in 1..Len(nodes) : nodes[k].ptype = "PT_ARRAY" /\ nodes[k].number = id

\* the row of rs with the local sequence id, as a set (empty when none)
RowOf(rs, scid) == {rs[j] : j \in {k \in 1..Len(rs) : rs[k].scid = scid}}

\* the step is a listing that the engine took for a refresh, and it completed
RefreshDone == last'.op = "list" /\ last'.token # NULL /\ ~crashed'

\* C3: after a full-listing refresh completes, every row that had an id
\* the listing does not name is removed when it is discardable and is kept
\* with id and address emptied when it is not; the sweep removes no row
\* that is not discardable, and every row the listing names has missing
\* FALSE.
SweepEffect ==
    [][RefreshDone =>
        /\ \A i \in 1..Len(rows) :
              (HasId(rows[i]) /\ ~Named(last'.nodes, rows[i].id)) =>
                  IF rows[i].discard
                  THEN RowOf(rows', rows[i].scid) = {}
                  ELSE \E row \in RowOf(rows', rows[i].scid) :
                          row.id = NULL /\ row.addr = NULL
        /\ \A i \in 1..Len(rows) :
              ~rows[i].discard => RowOf(rows', rows[i].scid) # {}
        /\ \A j \in 1..Len(rows') :
              Named(last'.nodes, rows'[j].id) => ~rows'[j].missing]_vars

\* a refresh swept a row that is not discardable: the row had an id (the
\* debugger had reported its function) and is kept without it
SweepEffectWitness ==
    /\ last.op = "list" /\ last.token # NULL /\ ~crashed
    /\ \E i \in 1..Len(rows) :
          /\ ~rows[i].discard /\ rows[i].missing
          /\ rows[i].id = NULL /\ rows[i].addr = NULL /\ rows[i].func # NULL

\* the step is a listing without token, and it completed
MergeDone == last'.op = "list" /\ last'.token = NULL /\ ~crashed'

\* C4 as amended: a listing that carries a token is processed as a bulk
\* refresh (afterwards no row keeps an id the listing does not name); a
\* listing without token is merged: no row is marked missing and no sweep
\* runs, every row the listing does not name stays as it is.
ListRefreshesOnToken ==
    [][/\ RefreshDone =>
            \A j \in 1..Len(rows') :
               HasId(rows'[j]) => Named(last'.nodes, rows'[j].id)
       /\ MergeDone =>
            \A i \in 1..Len(rows) :
               ~Named(last'.nodes, rows[i].id) => RowOf(rows', rows[i].scid) = {rows[i]}
      ]_vars

\* a listing without token left a row with an id that it does not name
ListRefreshesOnTokenWitness ==
    /\ last.op = "list" /\ last.token = NULL /\ ~crashed
    /\ \E i \in 1..Len(rows) : HasId(rows[i]) /\ ~Named(last.nodes, rows[i].id)

\* C4 as claimed: a listing without token is a bulk refresh, so that no row
\* keeps an id the listing does not name.
ListRefreshesUntokened ==
    [][MergeDone =>
          \A j \in 1..Len(rows') :
             HasId(rows'[j]) => Named(last'.nodes, rows'[j].id)]_vars

\* a row node the parse takes for a breakpoint
Parsable(node) == node.ptype = "PT_ARRAY" /\ node.number # NULL

\* the step is an insert reply whose token begins with '0', and it completed
GotoDone ==
    /\ last'.op = "inserted" /\ last'.token # NULL
    /\ CharAt(last'.token, 1) = "0" /\ ~crashed'

\* C5 as amended: an insert reply whose token begins with '0' is merged by
\* breakpoint id: it removes no row, the row of every breakpoint it names is
\* in the store afterwards, and every row it adds is marked discardable.
GotoAddsDiscardable ==
    [][GotoDone =>
        /\ \A i \in 1..Len(rows) : RowOf(rows', rows[i].scid) # {}
        /\ \A j \in 1..Len(rows') :
              RowOf(rows, rows'[j].scid) = {} => rows'[j].discard
        /\ \A k \in 1..Len(last'.nodes) :
              (Parsable(last'.nodes[k]) /\ strchr(last'.nodes[k].number, ".") = 0) =>
                  \E j \in 1..Len(rows') : rows'[j].id = last'.nodes[k].number]_vars

\* an insert reply with token "0" added a row, marked discardable, for the
\* breakpoint it names, and asked for the program to go on
GotoAddsDiscardableWitness ==
    /\ last.op = "inserted" /\ last.token = <<"0">> /\ ~crashed
    /\ sent # <<>>
    /\ \E j \in 1..Len(rows) :
          rows[j].scid = scid_gen /\ rows[j].discard /\ Named(last.nodes, rows[j].id)

\* C5 as claimed: an insert reply whose token begins with '0' is merged into
\* a row that exists and adds no row.
GotoAddsNoRow ==
    [][GotoDone =>
        {rows'[j].scid : j \in 1..Len(rows')} = {rows[i].scid : i \in 1..Len(rows)}]_vars

\* the step is an insert reply with the empty token, and it completed
DiscardDone == last'.op = "inserted" /\ last'.token = <<>> /\ ~crashed'

NonDiscardable(rs) == {rs[i].scid : i \in {k \in 1..Len(rs) : ~rs[k].discard}}

\* C6: an insert reply whose token remainder is empty leaves the set of rows
\* that are not discardable as it was: none is created, none is removed, and
\* no row's discard flag changes.
DiscardKeepsPersisted ==
    [][DiscardDone =>
        /\ NonDiscardable(rows') = NonDiscardable(rows)
        /\ \A i \in 1..Len(rows) :
              \E row \in RowOf(rows', rows[i].scid) : row.discard = rows[i].discard]_vars

\* an insert reply with the empty token added a discardable row to a store
\* that holds a row that is not
DiscardKeepsPersistedWitness ==
    /\ last.op = "inserted" /\ last.token = <<>> /\ ~crashed
    /\ \E i, j \in 1..Len(rows) :
          /\ ~rows[i].discard
          /\ rows[j].scid = scid_gen /\ rows[j].discard /\ Named(last.nodes, rows[j].id)

\* the step is the confirmation of an enable or disable command
ConfirmDone == last'.op = "done" /\ CharAt(last'.token, 1) \in {"0", "1"}

\* the step is the reply to the insert or watch command of a row
ApplyReplyDone ==
    /\ last'.op = "inserted" /\ last'.token \notin {NULL, <<>>}
    /\ CharAt(last'.token, 1) # "0" /\ ~crashed'

\* C7 as amended: a late reply is matched by the local sequence id, not by
\* position.  A confirmation of enable or disable sets the enabled flag of
\* the row with the id of its token and changes nothing else.  The reply to
\* an apply command gives that row the breakpoint id of its first node and
\* changes no other row that was in the store (it may add rows).
LateReplyByIdentity ==
    [][/\ ConfirmDone =>
            /\ Len(rows') = Len(rows)
            /\ \A i \in 1..Len(rows) :
                  rows'[i] = IF rows[i].scid = atoi(Tail(last'.token))
                             THEN [rows[i] EXCEPT !.enabled = (last'.token[1] = "1")]
                             ELSE rows[i]
       /\ ApplyReplyDone =>
            /\ \A i \in 1..Len(rows) :
                  rows[i].scid # atoi(last'.token) =>
                      RowOf(rows', rows[i].scid) = {rows[i]}
            /\ \A i \in 1..Len(rows) :
                  (rows[i].scid = atoi(last'.token) /\ Parsable(Head(last'.nodes))) =>
                      \E row \in RowOf(rows', rows[i].scid) :
                         row.id = Head(last'.nodes).number
      ]_vars

\* the reply to an apply command came after a row had left the store: it
\* was merged into the row with its sequence id, which is at another place
LateReplyByIdentityWitness ==
    /\ last.op = "inserted" /\ last.token \notin {NULL, <<>>, <<"0">>} /\ ~crashed
    /\ \E j \in 1..Len(rows) :
          /\ rows[j].scid = atoi(last.token) /\ j # rows[j].scid
          /\ Named(last.nodes, rows[j].id)

\* the sequence id a reply is for
ReplyScid(token) == IF last'.op = "done" THEN atoi(Tail(token)) ELSE atoi(token)

\* C7 as claimed: a late confirmation or apply reply changes the row with
\* the sequence id of its token and nothing else in the store.
LateReplyOneRow ==
    [][(ConfirmDone \/ ApplyReplyDone) =>
          /\ Len(rows') = Len(rows)
          /\ \A i \in 1..Len(rows) :
                rows[i].scid # ReplyScid(last'.token) => rows'[i] = rows[i]]_vars


\* C8: once the user has toggled the enabled flag of a row twice in a row and
\* every confirmation of the commands the toggles sent has come, the row has
\* the enabled flag it had before the first toggle.
DoubleToggleRestores ==
    (toggles.n = 2 /\ Confirmations(queue, toggles.scid) = <<>>) =>
        \A row \in RowOf(rows, toggles.scid) : row.enabled = toggles.orig

\* the user toggled the enabled flag of a row that has a backend id
IdToggleDone == last'.op = "enabled_toggled" /\ rows[last'.it].id # NULL

\* the enable or disable command of on_break_enabled_toggled() for a row
ToggleCommand(row) ==
    Command(<<"0", "2", IF row.enabled THEN "0" ELSE "1">> \o itoa(row.scid),
            <<"-break-", IF row.enabled THEN "dis" ELSE "en", "able", " ">>
                \o row.id)

\* C9: a toggle of the enabled flag of a row that has a backend id sends the
\* enable or disable command and leaves the flag alone when the session is
\* sendable, flips the flag of the row and sends nothing when there is no
\* session, and in an active session that is not sendable does neither: it
\* beeps.
ToggleWritesThrough ==
    [][IdToggleDone =>
          IF state \in DS_SENDABLE
          THEN /\ sent' = <<ToggleCommand(rows[last'.it])>>
               /\ rows' = rows
               /\ ~last'.beep
          ELSE IF state = "DS_INACTIVE"
          THEN /\ sent' = <<>>
               /\ rows' = [rows EXCEPT ![last'.it].enabled = ~@]
               /\ ~last'.beep
          ELSE /\ sent' = <<>>
               /\ rows' = rows
               /\ last'.beep]_vars

\* a busy session refused the toggle of a row with a backend id
ToggleWritesThroughWitness ==
    /\ last.op = "enabled_toggled" /\ last.beep
    /\ state = "DS_BUSY"
    /\ last.it \in 1..Len(rows) /\ rows[last.it].id # NULL
    /\ sent = <<>>

\* C9 as stated: the toggle sends the command exactly when the session is
\* sendable, and in every other state flips the flag of the row
ToggleFlipsUnlessSendable ==
    [][IdToggleDone =>
          IF state \in DS_SENDABLE
          THEN sent' = <<ToggleCommand(rows[last'.it])>> /\ rows' = rows
          ELSE sent' = <<>> /\ rows' = [rows EXCEPT ![last'.it].enabled = ~@]]_vars

\* the user toggled, edited or deleted a row that has no backend id
LocalDone ==
    /\ last'.op \in {"enabled_toggled", "column_edited", "delete"}
    /\ rows[last'.it].id = NULL

\* the rows differ in the ignore, cond and script columns of the row at it
\* at most
EditedAt(rs, after, it) ==
    after = [rs EXCEPT ![it] = [@ EXCEPT !.ignore = after[it].ignore,
                                         !.cond = after[it].cond,
                                         !.script = after[it].script]]

\* C10: in every session state, a toggle of the enabled flag, an edit of the
\* ignore, condition or script column and a delete of a row without backend
\* id send no command and change that row only: the toggle flips its flag,
\* the edit changes the three columns at most, the delete removes the row.
NoIdLocalOnly ==
    [][LocalDone =>
          /\ sent' = <<>> /\ queue' = queue /\ ~last'.beep
          /\ last'.op = "enabled_toggled" =>
                 rows' = [rows EXCEPT ![last'.it].enabled = ~@]
          /\ last'.op = "column_edited" =>
                 Len(rows') = Len(rows) /\ EditedAt(rows, rows', last'.it)
          /\ last'.op = "delete" => rows' = RemoveAt(rows, last'.it)]_vars

\* a row without backend id was deleted while the session was active
NoIdLocalOnlyWitness ==
    /\ last.op = "delete" /\ last.token = NULL
    /\ state # "DS_INACTIVE"
    /\ sent = <<>> /\ ~last.beep


\* the rows whose id is pref or goes on from pref with a '.'
Under(rs, pref) == {j \in 1..Len(rs) : HasPrefix(rs[j].id, pref)}

\* C11: the delete of a row without backend id removes it at once; the delete
\* of a row with a backend id leaves every row in place and sends the delete
\* command with the token '3' and the id; the confirmation with that token
\* then removes the row.
DeleteOnConfirmation ==
    [][/\ (last'.op = "delete" /\ rows[last'.it].id = NULL) =>
              rows' = RemoveAt(rows, last'.it) /\ sent' = <<>>
       /\ (last'.op = "delete" /\ rows[last'.it].id # NULL) =>
              /\ rows' = rows
              /\ sent' = << Command(<<"0", "2", "3">> \o rows[last'.it].id,
                                    <<"-break-delete", " ">> \o rows[last'.it].id) >>
              /\ ReplyToken(sent'[1].prefix) = <<"3">> \o rows[last'.it].id
       /\ (last'.op = "done" /\ CharAt(last'.token, 1) = "3") =>
              /\ Under(rows', break_done_payload(last'.token)) = {}
              /\ rows' = SelectSeq(rows, LAMBDA row :
                             ~HasPrefix(row.id, break_done_payload(last'.token)))]_vars

\* the confirmation of a delete command came and removed the row it names
DeleteOnConfirmationWitness ==
    /\ last.op = "done" /\ last.token = <<"3", "1">> /\ last.errs = 0
    /\ Under(rows, <<"1">>) = {}
    /\ state # "DS_INACTIVE"

\* where the rows are: the sequence ids in store order, each with its file
\* and line
LinesOf(rs) ==
    [j \in 1..Len(rs) |-> [scid |-> rs[j].scid, file |-> rs[j].file,
                           line |-> rs[j].line]]

\* lines were added without a session, and the edit after it removed as
\* many lines at the same line without a session
RoundTripDone ==
    /\ edit.delta < 0 /\ ~edit.active
    /\ edit.prev.delta = 0 - edit.delta /\ ~edit.prev.active
    /\ edit.prev.start = edit.start /\ edit.prev.path = edit.path
    /\ ~crashed

\* C12: when no session is active, k lines added at a line and then k lines
\* removed at the same line leave the same rows in the store, each at the
\* file and line it had before the two edits.
DeltaRoundTrip == RoundTripDone => LinesOf(rows) = LinesOf(edit.prev.rows)

\* the two edits moved a row away and back
DeltaRoundTripWitness ==
    /\ RoundTripDone
    /\ \E j \in 1..Len(rows) :
          /\ j <= Len(edit.rows) /\ edit.rows[j].scid = rows[j].scid
          /\ edit.rows[j].line = rows[j].line - edit.delta
          /\ rows[j].line - 1 >= edit.start

\* breaks_delta() looks at the row: it has a line at or after the edit, in
\* the file edited
Edited(row) ==
    /\ row.line - 1 >= 0 /\ edit.start <= row.line - 1
    /\ SameFile(row.file, edit.path)

\* the lines removed hold the line of the row
Cut(row) == edit.delta < 0 /\ row.line - 1 < edit.start - edit.delta

\* the last handler was breaks_delta() without a session
EditDone == edit.delta # 0 /\ ~edit.active /\ ~crashed

\* C13: after an edit without a session, a row of the edited file at or
\* after the line of the edit is gone when the lines removed held its line,
\* and is otherwise at its line plus delta; every other row is as it was, no
\* row is new, and no row that had a line is at a line below 1.
DeltaShifts ==
    EditDone =>
        /\ \A j \in 1..Len(edit.rows) :
               LET row == edit.rows[j]
               IN  IF Edited(row) /\ Cut(row) THEN RowOf(rows, row.scid) = {}
                   ELSE IF Edited(row)
                   THEN \E new \in RowOf(rows, row.scid) :
                           /\ new.line = row.line + edit.delta
                           /\ new.line >= 1
                           /\ new.file = row.file
                   ELSE RowOf(rows, row.scid) = {row}
        /\ \A j \in 1..Len(rows) : RowOf(edit.rows, rows[j].scid) # {}

\* lines were removed without a session: one row was in them and is gone,
\* another row was after them and moved up
DeltaShiftsWitness ==
    /\ EditDone /\ edit.delta < 0
    /\ \E i, j \in 1..Len(edit.rows) :
          /\ Edited(edit.rows[i]) /\ Cut(edit.rows[i])
          /\ RowOf(rows, edit.rows[i].scid) = {}
          /\ Edited(edit.rows[j]) /\ ~Cut(edit.rows[j])
          /\ \E new \in RowOf(rows, edit.rows[j].scid) :
                new.line = edit.rows[j].line + edit.delta

\* the last handler was breaks_delta() in a session
MarkDone == edit.delta # 0 /\ edit.active /\ ~crashed

\* C14: an edit while a session is active leaves the store as it was: no row
\* is added or removed, and no field of a row changes.
DeltaActiveKeeps == MarkDone => rows = edit.rows

\* lines were removed in a session at a line where a row of the file is
DeltaActiveKeepsWitness ==
    /\ MarkDone /\ edit.delta < 0
    /\ \E j \in 1..Len(rows) : Edited(rows[j]) /\ Cut(rows[j])

\* the step is the notification of one breakpoint with an id without dot
\* that no row has
NewCreatedDone ==
    /\ last'.op = "created" /\ ~crashed'
    /\ Len(last'.nodes) = 1 /\ Parsable(last'.nodes[1])
    /\ strchr(last'.nodes[1].number, ".") = 0
    /\ model_find(rows, "id", last'.nodes[1].number) = InvalidIter

\* the row that break_node_parse() makes of the node has what the node says
RowOfNode(row, node) ==
    /\ row.id = node.number
    /\ row.type = BreakTypeChar(IF node.type = NULL THEN node.name ELSE node.type)
    /\ row.enabled = (node.enabled # <<"n">>)
    /\ node.fullname # NULL => row.line = atoi(node.line)

\* a command can make the breakpoint of the row again: it has a location
\* and a known type
Persistable(row) == row.location # NULL /\ row.type \in BP_KNOWNS

\* C15 as amended: the notification of a breakpoint with an id without dot
\* that no row has adds exactly one row, with that id and the type, line and
\* enabled flag of the notification, and the row is always discardable; a
\* refresh whose listing does not name a discardable row with an id removes
\* the row.
CreatedAddsDiscardable ==
    [][/\ NewCreatedDone =>
              /\ Len(rows') = Len(rows) + 1
              /\ SubSeq(rows', 1, Len(rows)) = rows
              /\ RowOfNode(rows'[Len(rows')], last'.nodes[1])
              /\ rows'[Len(rows')].discard
       /\ RefreshDone =>
              \A j \in 1..Len(rows) :
                  (rows[j].discard /\ rows[j].id # NULL
                   /\ ~Named(last'.nodes, rows[j].id)) =>
                      RowOf(rows', rows[j].scid) = {}]_vars

\* the breakpoint 1 at line 2 was notified and its row is discardable,
\* though a command could make it again
CreatedAddsDiscardableWitness ==
    /\ last.op = "created" /\ last.nodes = <<NodeBreak(<<"1">>)>> /\ ~crashed
    /\ \E j \in 1..Len(rows) :
          /\ rows[j].id = <<"1">> /\ rows[j].type = "b" /\ rows[j].line = 2
          /\ rows[j].enabled /\ rows[j].discard /\ Persistable(rows[j])

\* C15 as claimed: the row the notification adds is not discardable when a
\* command can make its breakpoint again
CreatedPersists ==
    [][NewCreatedDone =>
          /\ Len(rows') = Len(rows) + 1
          /\ RowOfNode(rows'[Len(rows')], last'.nodes[1])
          /\ Persistable(rows'[Len(rows')]) => ~rows'[Len(rows')].discard]_vars

\* the step sent the insert or watch commands of break_apply()
ApplyDone == last'.op \in {"connect", "apply"}

\* the text of the command holds the flag
HasFlag(cmd, flag) == \E i \in 1..Len(cmd.text) : cmd.text[i] = flag

\* the row that break_apply() made the command of: the token is its
\* sequence id
Applied(rs, cmd) == RowOf(rs, atoi(ReplyToken(cmd.prefix)))

\* C16 as amended: a toggle of the enabled flag without a session flips the
\* flag of the row and sends nothing; the command that break_apply() sends
\* for a breakpoint or tracepoint row is -break-insert and holds -d exactly
\* when the row is not enabled at the time, and the command it sends for a
\* watchpoint row is -break-watch and never holds -d.
ApplyCarriesDisabled ==
    [][/\ (last'.op = "enabled_toggled" /\ state = "DS_INACTIVE") =>
              /\ rows' = [rows EXCEPT ![last'.it].enabled = ~@]
              /\ sent' = <<>>
       /\ ApplyDone =>
              \A k \in 1..Len(sent') :
                  /\ Applied(rows, sent'[k]) # {}
                  /\ \A row \in Applied(rows, sent'[k]) :
                         IF row.type \in BP_BORTS
                         THEN /\ sent'[k].text[2] = "insert"
                              /\ HasFlag(sent'[k], " -d") <=> ~row.enabled
                         ELSE /\ sent'[k].text[2] = "watch"
                              /\ ~HasFlag(sent'[k], " -d")]_vars

\* a session began and the insert command of a row that is not enabled went
\* out with -d
ApplyCarriesDisabledWitness ==
    /\ last.op = "connect" /\ sent # <<>>
    /\ \E row \in Applied(rows, sent[1]) :
          /\ ~row.enabled /\ row.type \in BP_BORTS
          /\ HasFlag(sent[1], " -d")

\* C16 as claimed: the command of every apply is -break-insert and holds -d
\* exactly when the row is not enabled
ApplyInsertsDisabled ==
    [][/\ (last'.op = "enabled_toggled" /\ state = "DS_INACTIVE") =>
              /\ rows' = [rows EXCEPT ![last'.it].enabled = ~@]
              /\ sent' = <<>>
       /\ ApplyDone =>
              \A k \in 1..Len(sent') :
                  \A row \in Applied(rows, sent'[k]) :
                      /\ sent'[k].text[2] = "insert"
                      /\ HasFlag(sent'[k], " -d") <=> ~row.enabled]_vars

\* the rows made from a dotted id
ChildRows(rs) == {j \in 1..Len(rs) : rs[j].id # NULL /\ strchr(rs[j].id, ".") # 0}

\* the sequence ids of a set of rows
ScidsOf(rs, js) == {rs[j].scid : j \in js}

\* the sequence ids of the rows the commands of an apply are for
AppliedScids(cmds) ==
    {atoi(SubSeq(cmds[k].prefix, 3, Len(cmds[k].prefix))) : k \in 1..Len(cmds)}

\* C17: a row made from a dotted id always has run_apply FALSE and discard
\* TRUE; breaks_apply() emits no insert or watch command for such a row, and
\* breaks_clear() at the end of the session leaves no such row.
ChildNeverReapplied ==
    [][/\ \A j \in ChildRows(rows') : ~rows'[j].run_apply /\ rows'[j].discard
       /\ last'.op = "connect" =>
              AppliedScids(sent') \cap ScidsOf(rows, ChildRows(rows)) = {}
       /\ last'.op = "clear" =>
              /\ ChildRows(rows') = {}
              /\ ScidsOf(rows', 1..Len(rows')) \cap ScidsOf(rows, ChildRows(rows)) = {}]_vars

\* C17, what the code keeps: a row made from a dotted id is always
\* discardable, no apply at the start of a session finds one, and none is
\* left when the session has ended
ChildNeverSurvives ==
    [][/\ \A j \in ChildRows(rows') : rows'[j].discard
       /\ last'.op = "connect" => ChildRows(rows) = {}
       /\ last'.op = "clear" =>
              /\ ChildRows(rows') = {}
              /\ ScidsOf(rows', 1..Len(rows')) \cap ScidsOf(rows, ChildRows(rows)) = {}]_vars

\* the run_apply entry of the menu was taken on a row made from a dotted id
ChildRunApplyWitness ==
    /\ last.op = "run_apply"
    /\ last.it \in ChildRows(rows)
    /\ rows[last.it].run_apply

\* the rows with the id
WithId(rs, id) == {j \in 1..Len(rs) : rs[j].id = id}

\* the parent of a dotted id: what stands before the '.'
ParentOf(id) == SubSeq(id, 1, strchr(id, ".") - 1)

\* a notification or a listing came whose first row node has a dotted id,
\* while the store had no row of that id and no row of its parent
OrphanDone ==
    /\ last'.op \in {"created", "list"}
    /\ last'.nodes # <<>>
    /\ last'.nodes[1].ptype = "PT_ARRAY"
    /\ last'.nodes[1].number # NULL
    /\ strchr(last'.nodes[1].number, ".") # 0
    /\ WithId(rows, last'.nodes[1].number) = {}
    /\ WithId(rows, ParentOf(last'.nodes[1].number)) = {}

\* C18: when a row node with a dotted id comes and the store has no row of
\* its parent, an error is reported, a row with the dotted id is made, and
\* the handler ends without a crash.
OrphanChildKeyed ==
    [][OrphanDone =>
          /\ ~crashed'
          /\ last'.errs > 0
          /\ WithId(rows', last'.nodes[1].number) # {}]_vars

\* what the code does with such a node: it reports nothing
OrphanUnreported == [][OrphanDone => last'.errs = 0]_vars

\* a location 1.1 came in a notification of its own into a store without
\* breakpoint 1: nothing was reported and no row has the id
OrphanChildWitness ==
    /\ last.op = "created"
    /\ last.nodes = <<NodeChild(<<"1">>)>>
    /\ last.errs = 0
    /\ ~crashed
    /\ WithId(rows, <<"1">>) = {}
    /\ WithId(rows, <<"1", ".", "1">>) = {}

\* the nodes of a message break_node_parse() cannot parse: a value, or an
\* array without number
Unparsables(nodes) == {k \in 1..Len(nodes) : ~Parsable(nodes[k])}

\* the row holds what the node says of its breakpoint
RowFromNode(row, node) ==
    /\ row.id = node.number
    /\ row.times = utils_atoi0(node.times)
    /\ row.func = node.func
    /\ row.addr = node.addr
    /\ row.temporary = (node.disp = <<"del">>)
    /\ ~row.missing

\* a message came with several row nodes, one of which cannot be parsed
MixedDone ==
    /\ last'.op \in {"created", "list", "inserted"}
    /\ Len(last'.nodes) > 1
    /\ Unparsables(last'.nodes) # {}
    /\ ~crashed'

\* C19: when a message has several row nodes and one of them is a value or
\* has no number, an error is reported for that node, and every other node
\* of the message that names a breakpoint is still parsed: after the message
\* a row has its id and what the node says of it.
BadNodeSkipped ==
    [][MixedDone =>
          /\ last'.errs >= Cardinality(Unparsables(last'.nodes))
          /\ \A k \in (1..Len(last'.nodes)) \ Unparsables(last'.nodes) :
                 strchr(last'.nodes[k].number, ".") = 0 =>
                    \E j \in 1..Len(rows') : RowFromNode(rows'[j], last'.nodes[k])]_vars

\* a listing came with a value and, after it, breakpoint 1, which the store
\* did not have: one error was reported and the row of 1 was made
BadNodeSkippedWitness ==
    /\ last.op = "list"
    /\ last.nodes = <<ValueNode, NodeBreak(<<"1">>)>>
    /\ last.errs = 1
    /\ ~crashed
    /\ \E j \in 1..Len(rows) : RowFromNode(rows[j], NodeBreak(<<"1">>))

\* a confirmation came whose token names, after the digit 0 or 1, a sequence
\* id no row has, or, after the digit 3, an id no row has or goes on from
UnmatchedDone ==
    /\ last'.op = "done"
    /\ \/ /\ CharAt(last'.token, 1) \in {"0", "1"}
          /\ \A j \in 1..Len(rows) :
                 rows[j].scid # atoi(break_done_payload(last'.token))
       \/ /\ CharAt(last'.token, 1) = "3"
          /\ Under(rows, break_done_payload(last'.token)) = {}

\* C20: a confirmation whose token matches no row, by sequence id after the
\* digits 0 and 1 and by id after the digit 3, reports one error, leaves the
\* rows as they were and sends nothing; the engine goes on with the next
\* reply.
UnmatchedDoneReported ==
    [][UnmatchedDone =>
          /\ last'.errs = 1
          /\ rows' = rows
          /\ sent' = <<>>
          /\ ~crashed'
          /\ queue' = Tail(queue)]_vars

\* the confirmation of a toggle came after the notification that its
\* breakpoint is deleted had removed the row
UnmatchedDoneWitness ==
    /\ last.op = "done"
    /\ CharAt(last.token, 1) \in {"0", "1"}
    /\ last.errs = 1
    /\ rows = <<>>
    /\ ~crashed

\* the confirmation of a delete came after the row was gone
UnmatchedDeleteWitness ==
    /\ last.op = "done"
    /\ CharAt(last.token, 1) = "3"
    /\ last.errs = 1
    /\ ~crashed

\* a stored record break_load() makes a row of: its type is one of BP_KNOWNS,
\* it has a location, and its line is not negative
Loadable(rec) ==
    rec.type \in BP_KNOWNS /\ rec.location # NULL /\ rec.line >= 0

\* the row holds what the record says
RowFromRecord(row, rec) ==
    /\ row.type = rec.type
    /\ row.location = rec.location
    /\ row.file = rec.file
    /\ row.line = (IF rec.file = NULL THEN 0 ELSE rec.line)
    /\ row.enabled = rec.enabled
    /\ row.cond = rec.cond
    /\ row.run_apply = rec.run_apply
    /\ row.id = NULL

\* C21: loading the stored breakpoints makes a row of a record only if the
\* type of the record is known, its location is there and its line is not
\* negative; every other record makes no row, and the records after it are
\* still loaded: the rows are those of the loadable records, in their order.
LoadSkipsInvalid ==
    [][last'.op = "load" =>
          LET valid == SelectSeq(last'.nodes, Loadable)
          IN  /\ Len(rows') = Len(valid)
              /\ \A k \in 1..Len(valid) : RowFromRecord(rows'[k], valid[k])]_vars

\* a record with a negative line and a valid one after it were loaded: the
\* store has the row of the second alone
LoadSkipsInvalidWitness ==
    /\ last.op = "load"
    /\ last.nodes = <<[RecordBreak EXCEPT !.line = -1], RecordBreak>>
    /\ Len(rows) = 1
    /\ RowFromRecord(rows[1], RecordBreak)

\* the message the last handler of the thread engine was given
ThreadMsg(l) == l.nodes[1]

\* the message names every thread as stopped
StoppedAll(l) ==
    /\ l.op = "thread_stopped"
    /\ ThreadMsg(l).stype = "PT_VALUE"
    /\ ThreadMsg(l).stopped = <<"a", "l", "l">>

\* C22: a stopped notification whose stopped-threads value is "all" sets the
\* state of every thread row there is to stopped, and it neither makes nor
\* removes a thread row: the rows after it are the rows before it, by id and
\* in their order.
StoppedAllStopsEvery ==
    [][StoppedAll(last') =>
          /\ Len(threads') = Len(threads)
          /\ \A i \in 1..Len(threads) :
                /\ threads'[i].id = threads[i].id
                /\ threads'[i].state = STOPPED]_vars

\* "all" came without the id of a thread while there were two rows, of which
\* the debugger had given a frame for neither: both are stopped
StoppedAllWitness ==
    /\ StoppedAll(last)
    /\ last.token = NULL
    /\ Len(threads) = 2
    /\ \A i \in 1..2 : threads[i].state = STOPPED /\ threads[i].addr = NULL
    /\ thread_prompt = 2

\* how often the side effects named what have fired since the session began
Fired(what) == Len(SelectSeq(fired, LAMBDA f : f = what))

Selected == {i \in 1..Len(threads) : threads[i].id = thread_id}

ExecutionOf(row, debug) ==
    IF row.state = RUNNING THEN "THREAD_RUNNING"
    ELSE IF row.state # STOPPED THEN "THREAD_BLANK"
    ELSE IF row.addr = NULL
    THEN IF debug THEN "THREAD_STOPPED" ELSE "THREAD_QUERY_FRAME"
    ELSE IF row.line # 0 THEN "THREAD_AT_SOURCE"
    ELSE "THREAD_AT_ASSEMBLER"

\* the running notification is for the thread selected, which was stopped
RunningSelected ==
    /\ last'.op = "thread_running"
    /\ thread_id # NULL
    /\ ThreadMsg(last').tid = thread_id
    /\ ThreadRank(thread_state) >= ThreadRank("THREAD_STOPPED")

\* C25: a running notification for the thread that is the selection, while
\* the execution state is stopped or later: if selecting on running is on and
\* another row is stopped, the first such row becomes the selection and the
\* execution state is that of a stopped thread, computed from the columns of
\* that row; else the selection stays and the execution state is running.
RunningMovesSelection ==
    [][RunningSelected =>
          LET others == {i \in 1..Len(threads) :
                            threads[i].id # thread_id /\ threads[i].state = STOPPED}
              first == CHOOSE i \in others : \A j \in others : i <= j
          IN  IF ThreadMsg(last').select /\ others # {}
              THEN /\ thread_id' = threads[first].id
                   /\ thread_state' = ExecutionOf(threads'[first],
                                                 ThreadMsg(last').debug)
                   /\ ThreadRank(thread_state') >= ThreadRank("THREAD_STOPPED")
              ELSE /\ thread_id' = thread_id
                   /\ thread_state' = "THREAD_RUNNING"]_vars

\* thread 1 was selected and stopped, it runs again, and the selection has
\* moved to thread 2, which is stopped and has no frame yet: the handler has
\* asked for the frame of thread 2
RunningMovesSelectionWitness ==
    /\ last.op = "thread_running"
    /\ last.token = <<"1">>
    /\ ThreadMsg(last).select
    /\ thread_id = <<"2">>
    /\ thread_state = "THREAD_STOPPED"
    /\ sent = <<thread_query_frame("4", <<"2">>)>>
    /\ \E i \in 1..Len(threads) : threads[i].id = <<"1">> /\ threads[i].state = RUNNING

\* the same without selecting on running: the selection stays on thread 1
RunningKeepsSelectionWitness ==
    /\ last.op = "thread_running"
    /\ last.token = <<"1">>
    /\ ~ThreadMsg(last).select
    /\ thread_id = <<"1">>
    /\ thread_state = "THREAD_RUNNING"
    /\ \E i \in 1..Len(threads) : threads[i].id = <<"2">> /\ threads[i].state = STOPPED

\* the row of the thread the frame report is for, before the report
FrameRow == model_find(threads, "id", last'.token)

\* a frame report came for a thread of the list, and it holds a frame
FrameReported ==
    /\ last'.op = "thread_frame"
    /\ FrameRow # InvalidIter
    /\ ThreadMsg(last').frame.ptype = "PT_ARRAY"

\* C26 as stated: a frame report leaves the state of the row as it was, a row
\* that was running before it is running after it.
FrameKeepsRunState ==
    [][FrameReported => threads'[FrameRow].state = threads[FrameRow].state]_vars

\* C26: a frame report for a thread of the list sets the file, the line, the
\* function and the address of its row from the frame, and the state of the
\* row to stopped, whatever it was; the other rows stay as they were.
FrameStopsRow ==
    [][FrameReported =>
          LET loc == parse_location(ThreadMsg(last').frame)
              row == threads'[FrameRow]
          IN  /\ row.file = loc.file /\ row.line = loc.line
              /\ row.func = loc.func /\ row.addr = loc.addr
              /\ row.id = threads[FrameRow].id
              /\ row.state = STOPPED
              /\ Len(threads') = Len(threads)
              /\ \A i \in 1..Len(threads) : i # FrameRow => threads'[i] = threads[i]]_vars

\* the frame of thread 1 was reported while the list had thread 1 alone,
\* which had never been reported as stopped: its row is stopped, at the line
\* of the frame, and counts as a stopped thread
FrameStopsRowWitness ==
    /\ last.op = "thread_frame"
    /\ last.token = <<"1">>
    /\ ThreadMsg(last).frame = FrameSource
    /\ Len(threads) = 1
    /\ threads[1] = [id |-> <<"1">>, state |-> STOPPED, file |-> FileA, line |-> 2,
                      func |-> <<"f">>, addr |-> <<"0", "x", "1">>]
    /\ thread_id = <<"1">> /\ thread_state = "THREAD_AT_SOURCE"
    /\ thread_prompt = 1
    /\ steps_left = MaxThreadSteps - 3

\* the type break_node_parse() takes from the node
NodeKind(node) == BreakTypeChar(IF node.type = NULL THEN node.name ELSE node.type)

\* the ignore or pass count of the node
NodeIgnore(node) == IF node.ignore # NULL THEN node.ignore ELSE node.pass

\* the row has the enabled flag, the condition and the count of the node
EditsFrom(row, node) ==
    /\ row.enabled = (node.enabled # <<"n">>)
    /\ row.cond = utils_get_display_from_7bit(node.cond)
    /\ row.ignore = NodeIgnore(node)

\* the row has the enabled flag, the condition and the count of the old row
EditsOf(row, old) ==
    /\ row.enabled = old.enabled
    /\ row.cond = old.cond
    /\ row.ignore = old.ignore

\* the step is the reply to the apply command of a row that is in the store,
\* and its first node is merged into that row in the stage BG_APPLY
ApplyMerged ==
    /\ ApplyReplyDone
    /\ model_find_scid(rows, last'.token) # InvalidIter
    /\ Parsable(Head(last'.nodes))

\* the row of the store the apply reply is for, before the reply
AppliedRow == rows[model_find_scid(rows, last'.token)]

\* the step is an insert reply that is merged in another stage than BG_APPLY
OtherStageMerged ==
    /\ last'.op = "inserted" /\ ~crashed'
    /\ last'.token \in {<<"0">>, <<>>}

\* C27 as stated: in the stage BG_APPLY the enabled flag, the condition and
\* the count of a break, hw-break, trace or ftrace row stay as they were, and
\* those of a row of another kind are set from the message.
MergeKeepsBortsEdits ==
    [][ApplyMerged =>
          \A row \in RowOf(rows', AppliedRow.scid) :
             IF NodeKind(Head(last'.nodes)) \in BP_BORTS
             THEN EditsOf(row, AppliedRow)
             ELSE EditsFrom(row, Head(last'.nodes))]_vars

\* C27: in the stage BG_APPLY the reply leaves the enabled flag, the
\* condition and the count of a row of a watch kind as they were, and the
\* count of a trace or ftrace row; it sets the enabled flag and the condition
\* of a break, hw-break, trace or ftrace row from the message, and the count
\* of a break or hw-break row.  In every other stage the three are set from
\* the message, whatever the kind.
MergeKeepsWatchEdits ==
    [][/\ ApplyMerged =>
            LET node == Head(last'.nodes)
                kind == NodeKind(node)
            IN  /\ RowOf(rows', AppliedRow.scid) # {}
                /\ \A row \in RowOf(rows', AppliedRow.scid) :
                      /\ row.id = node.number
                      /\ IF kind \in BP_BORTS
                         THEN /\ row.enabled = (node.enabled # <<"n">>)
                              /\ row.cond = utils_get_display_from_7bit(node.cond)
                         ELSE /\ row.enabled = AppliedRow.enabled
                              /\ row.cond = AppliedRow.cond
                      /\ row.ignore = IF kind \in BP_BREAKS THEN NodeIgnore(node)
                                      ELSE AppliedRow.ignore
       /\ OtherStageMerged =>
            \A k \in 1..Len(last'.nodes) : \A j \in 1..Len(rows') :
               (Parsable(last'.nodes[k]) /\ rows'[j].id = last'.nodes[k].number) =>
                   EditsFrom(rows'[j], last'.nodes[k])]_vars

\* the watchpoint the user had disabled and edited was applied: the reply,
\* which says enabled and has no condition nor count, gave the row its id
\* and left the three columns as the user had them
MergeKeepsWatchEditsWitness ==
    /\ last.op = "inserted" /\ last.token \notin {NULL, <<>>, <<"0">>} /\ ~crashed
    /\ NodeKind(Head(last.nodes)) = "w"
    /\ \E row \in RowOf(rows, atoi(last.token)) :
          /\ row.type = "w"
          /\ row.id = Head(last.nodes).number
          /\ ~row.enabled /\ row.cond = <<"e">> /\ row.ignore = <<"3">>

\* the same for a breakpoint: the reply has overwritten the three columns
MergeSetsBreakEditsWitness ==
    /\ last.op = "inserted" /\ last.token \notin {NULL, <<>>, <<"0">>} /\ ~crashed
    /\ last.nodes = <<NodeBreak(<<"1">>)>>
    /\ \E row \in RowOf(rows, atoi(last.token)) :
          /\ row.type = "b" /\ row.script = <<"s">>
          /\ row.id = <<"1">>
          /\ row.enabled /\ row.cond = NULL /\ row.ignore = NULL

\* the same for a tracepoint: the reply has overwritten the enabled flag and
\* the condition, and the pass count is the one of the user
MergeKeepsPassCountWitness ==
    /\ last.op = "inserted" /\ last.token \notin {NULL, <<>>, <<"0">>} /\ ~crashed
    /\ last.nodes = <<NodeTrace(<<"1">>)>>
    /\ \E row \in RowOf(rows, atoi(last.token)) :
          /\ row.type = "t"
          /\ row.enabled /\ row.cond = NULL /\ row.ignore = <<"3">>

\* the command that sets a column of the breakpoint id after its creation
FollowUp(verb, id, text) ==
    IF text = NULL THEN <<>>
    ELSE <<Command(<<>>, <<"-break-", verb, " ">> \o id \o <<" ">> \o text)>>

\* the reply is of the kind of the row it is for
ApplyMatched == ApplyMerged /\ NodeKind(Head(last'.nodes)) = AppliedRow.type

\* C28: when the reply to the apply command of a row has been merged, the
\* commands sent are those the creation command could not carry, for the id
\* of the reply and from the columns of the row: for a watch kind a disable
\* command if and only if the row is disabled, then a command for each of
\* ignore count, condition and script that is there; for a break or hw-break
\* kind the script alone; for a trace or ftrace kind the pass count and the
\* script; never a disable nor a condition for these four kinds.
AppliedFollowUps ==
    [][ApplyMatched =>
          LET row == AppliedRow
              id == Head(last'.nodes).number
          IN  sent' =
                 IF row.type \in BP_WATCHES
                 THEN (IF row.enabled THEN <<>>
                       ELSE <<Command(<<>>, <<"-break-disable", " ">> \o id)>>)
                      \o FollowUp("after", id, row.ignore)
                      \o FollowUp("condition", id, row.cond)
                      \o FollowUp("commands", id, row.script)
                 ELSE IF row.type \in BP_BREAKS
                 THEN FollowUp("commands", id, row.script)
                 ELSE FollowUp("passcount", id, row.ignore)
                      \o FollowUp("commands", id, row.script)]_vars

\* the reply to the apply of the disabled and edited watchpoint has come:
\* the four commands were sent for its id
AppliedFollowUpsWitness ==
    /\ MergeKeepsWatchEditsWitness
    /\ Len(sent) = 4
    /\ sent[1].text = <<"-break-disable", " ">> \o Head(last.nodes).number
    /\ sent[2].text[2] = "after" /\ sent[3].text[2] = "condition"
    /\ sent[4].text[2] = "commands"

\* the same for the tracepoint: the pass count and the script
AppliedTraceWitness ==
    /\ MergeKeepsPassCountWitness
    /\ Len(sent) = 2
    /\ sent[1].text = <<"-break-", "passcount", " ", "1", " ", "3">>
    /\ sent[2].text = <<"-break-", "commands", " ", "1", " ", "s">>

\* the same for the breakpoint: the script alone
AppliedBreakWitness ==
    /\ MergeSetsBreakEditsWitness
    /\ sent = FollowUp("commands", <<"1">>, <<"s">>)

\* the commands of a step that ask for the program to go on
Resumptions(snt) ==
    Cardinality({i \in 1..Len(snt) :
                    snt[i] = Command(<<>>, <<"-exec-continue">>)})

\* the step is an insert reply, and it completed
InsertedDone == last'.op = "inserted" /\ ~crashed'

\* C29 as claimed: an insert reply in Goto stage asks once for the program
\* to go on when one of its nodes is well formed and not at all when none
\* is, and an insert reply in another stage never asks for it.
GotoResumesOnParsed ==
    [][InsertedDone =>
          Resumptions(sent') =
             IF GotoDone /\ \E k \in 1..Len(last'.nodes) : Parsable(last'.nodes[k])
             THEN 1 ELSE 0]_vars

\* C29 as amended: an insert reply in Goto stage asks once for the program
\* to go on when its first node is well formed, whatever the number of well
\* formed nodes after it, and not at all when its first node cannot be
\* parsed, for that node ends the stage; an insert reply in Persist, Discard
\* or Apply stage never asks for it.
GotoResumesOnFirst ==
    [][InsertedDone =>
          Resumptions(sent') =
             IF GotoDone /\ last'.nodes # <<>> /\ Parsable(Head(last'.nodes))
             THEN 1 ELSE 0]_vars

\* an insert reply with token "0" and two well formed nodes has been
\* parsed, and the program was asked once to go on
GotoResumesOnFirstWitness ==
    /\ last.op = "inserted" /\ last.token = <<"0">> /\ ~crashed
    /\ Len(last.nodes) = 2
    /\ \A k \in 1..2 : Parsable(last.nodes[k])
    /\ Resumptions(sent) = 1

\* an insert reply with token "0" whose first node is a value and whose
\* second is well formed has been parsed, and nothing was asked
GotoSilentAfterErrorWitness ==
    /\ last.op = "inserted" /\ last.token = <<"0">> /\ ~crashed
    /\ Len(last.nodes) = 2
    /\ ~Parsable(last.nodes[1]) /\ Parsable(last.nodes[2])
    /\ Resumptions(sent) = 0

\* the reply to an apply command has been merged and follow-ups were sent,
\* none of them a request to go on
ApplyNeverResumesWitness ==
    /\ last.op = "inserted" /\ last.token \notin {NULL, <<>>, <<"0">>} /\ ~crashed
    /\ sent # <<>> /\ Resumptions(sent) = 0

\* the text holds the part, element for element
Carries(text, part) ==
    \E i \in 1..(Len(text) - Len(part) + 1) :
        SubSeq(text, i, i + Len(part) - 1) = part

\* the condition has a character that a quoted text must escape
NeedsEscape(cond) ==
    \E i \in 1..Len(cond) : cond[i] = "\"" \/ cond[i] = "\\"

\* C30 as claimed: the command that break_apply() sends for a break,
\* hw-break, trace or ftrace row with a condition carries the condition in
\* double quotes, every double quote and backslash of it with a backslash
\* before it.
ApplyEscapesCondition ==
    [][ApplyDone =>
          \A k \in 1..Len(sent') :
              \A row \in Applied(rows, sent'[k]) :
                  (row.type \in BP_BORTS /\ row.cond # NULL) =>
                      Carries(sent'[k].text,
                              <<" -c ", "\"">>
                              \o EscapeQuoted(utils_get_locale_from_display(row.cond))
                              \o <<"\"">>)]_vars

\* what the code does: the condition is between the double quotes as it is
\* in the row
ApplyQuotesCondition ==
    [][ApplyDone =>
          \A k \in 1..Len(sent') :
              \A row \in Applied(rows, sent'[k]) :
                  (row.type \in BP_BORTS /\ row.cond # NULL) =>
                      Carries(sent'[k].text,
                              <<" -c ", "\"">>
                              \o utils_get_locale_from_display(row.cond)
                              \o <<"\"">>)]_vars

\* a session began with a breakpoint whose condition has a double quote and
\* a backslash, and the insert command went out with the two as they are
ApplyRawConditionWitness ==
    /\ last.op = "connect" /\ sent # <<>>
    /\ \E row \in Applied(rows, sent[1]) :
          /\ row.type \in BP_BORTS /\ row.cond # NULL /\ NeedsEscape(row.cond)
          /\ Carries(sent[1].text, <<" -c ", "\"">> \o row.cond \o <<"\"">>)
          /\ ~Carries(sent[1].text,
                      <<" -c ", "\"">> \o EscapeQuoted(row.cond) \o <<"\"">>)

\* the step is a stopped notification while selecting on stopped is on
StoppedSelecting == last'.op = "thread_stopped" /\ ThreadMsg(last').select

\* the globals when the stop has been applied and no row selected yet
StopApplied ==
    on_thread_stopped(ThreadGlobals, ThreadMsg(last'), FALSE, ThreadMsg(last').debug)

\* the rows that hold the id
ThreadRows(ths, tid) == {i \in 1..Len(ths) : ths[i].id = tid}

\* the first row that the stopped-threads of the message makes the handler
\* work on, 0 when there is none
FirstStopped(msg) ==
    IF msg.stype = "NONE" THEN 0
    ELSE IF msg.stype = "PT_VALUE" /\ msg.stopped = <<"a", "l", "l">>
    THEN (IF threads = <<>> THEN 0 ELSE 1)
    ELSE LET tids == IF msg.stype = "PT_VALUE" THEN <<msg.stopped>> ELSE msg.stopped
             ks == {k \in 1..Len(tids) : ThreadRows(threads, tids[k]) # {}}
         IN  IF ks = {} THEN 0
             ELSE LET k == CHOOSE k \in ks : \A j \in ks : k <= j
                  IN  CHOOSE i \in ThreadRows(threads, tids[k]) : TRUE

\* the row a stopped notification would select: the one of its thread-id
\* when there is such a row, else the first of its stopped-threads
StopCandidate(msg) ==
    IF msg.tid # NULL /\ ThreadRows(threads, msg.tid) # {}
    THEN CHOOSE i \in ThreadRows(threads, msg.tid) : TRUE
    ELSE FirstStopped(msg)

\* C31 as claimed: at a stopped notification with selecting on stopped on,
\* the selection changes only if the execution state is blank or running
\* once the stop has been applied; the selected thread is never deselected
\* when its own row is stopped by then; and the row that becomes the
\* selection is the one of the thread-id of the notification when there is
\* such a row, else the first row of its stopped-threads.
StoppedSelectsUnlessStopped ==
    [][StoppedSelecting =>
          LET msg == ThreadMsg(last')
              applied == StopApplied
          IN  /\ thread_id' # thread_id =>
                     applied.thread_state \in {"THREAD_BLANK", "THREAD_RUNNING"}
              /\ (\E i \in ThreadRows(applied.threads, thread_id) :
                      applied.threads[i].state = STOPPED) => thread_id' = thread_id
              /\ thread_id' # thread_id =>
                     /\ StopCandidate(msg) # 0
                     /\ thread_id' = threads[StopCandidate(msg)].id]_vars

\* what the code does: the execution state alone decides, whatever the
\* state of the row of the selected thread
StoppedSelectsByState ==
    [][StoppedSelecting =>
          LET msg == ThreadMsg(last')
              applied == StopApplied
          IN  IF /\ applied.thread_state \in {"THREAD_BLANK", "THREAD_RUNNING"}
                 /\ StopCandidate(msg) # 0
              THEN thread_id' = threads[StopCandidate(msg)].id
              ELSE thread_id' = thread_id]_vars

\* selecting on stopped is on, no row has the thread-id of the notification
\* and the first row of its stopped-threads has become the selection
StoppedSelectsFirstWitness ==
    /\ last.op = "thread_stopped" /\ ThreadMsg(last).select
    /\ ThreadRows(threads, ThreadMsg(last).tid) = {}
    /\ Len(threads) = 2
    /\ thread_id = threads[1].id /\ thread_state = "THREAD_QUERY_FRAME"

\* the execution states of a selected thread that is stopped
StoppedStates ==
    {"THREAD_STOPPED", "THREAD_QUERY_FRAME", "THREAD_AT_SOURCE",
     "THREAD_AT_ASSEMBLER"}

\* C32 as claimed: the execution state goes with the selected row in every
\* state: blank without a selection, running when the state of the selected
\* row is running, and one of stopped, querying the frame, at source and at
\* assembler when the state of the selected row is stopped, also when the
\* row has kept its address while the thread ran.
ExecutionMatchesSelection ==
    /\ thread_id = NULL => thread_state = "THREAD_BLANK"
    /\ \A i \in Selected :
          /\ threads[i].state = RUNNING => thread_state = "THREAD_RUNNING"
          /\ threads[i].state = STOPPED => thread_state \in StoppedStates

\* what the code keeps: the same, but for a selected row that is stopped and
\* holds an address, for which the execution state can be running
ExecutionMatchesUnlessKept ==
    /\ thread_id = NULL => thread_state = "THREAD_BLANK"
    /\ \A i \in Selected :
          /\ threads[i].state = RUNNING => thread_state = "THREAD_RUNNING"
          /\ threads[i].state = STOPPED =>
                \/ thread_state \in StoppedStates
                \/ thread_state = "THREAD_RUNNING" /\ threads[i].addr # NULL

\* the selected thread ran with its address kept and a stopped notification
\* has stopped its row: the execution state still says running
ExecutionStaleWitness ==
    /\ last.op = "thread_stopped"
    /\ thread_state = "THREAD_RUNNING"
    /\ \E i \in Selected : threads[i].state = STOPPED /\ threads[i].addr # NULL

\* the step is an exited notification that shut the session down
ShutdownFired ==
    /\ last'.op = "thread_exited"
    /\ fired' = Append(fired, "shutdown")

\* C33 as claimed: whatever created and exited notifications have come,
\* those without id, with the id of no thread and with the id of a thread
\* there is among them, the count of live threads is the number of thread
\* rows.
ThreadCountIsRows == thread_count = Len(threads)

\* the consequence the claim draws from it: the session shuts down only
\* when no thread row is left
ShutdownOnEmpty == [][ShutdownFired => threads' = <<>>]_vars

\* one thread was counted, an exited notification named another one, and
\* the session has shut down with the row of the first in the list
ShutdownWithRowWitness ==
    /\ last.op = "thread_exited" /\ last.errs > 0
    /\ fired = <<"startup", "shutdown">>
    /\ thread_count = 0 /\ Len(threads) = 1

\* the step is the reply to an apply command whose row is no longer in the
\* store, and it completed
LostReplyDone ==
    /\ InsertedDone
    /\ last'.token \notin {NULL, <<>>} /\ CharAt(last'.token, 1) # "0"
    /\ model_find_scid(rows, last'.token) = InvalidIter

\* C34: when the reply to an apply command comes and no row has the
\* sequence id of its token, an error is reported and the nodes are parsed
\* in the stage BG_PERSIST: every breakpoint the reply names by an id
\* without dot has a row with that id afterwards, and the row made for the
\* first node is kept beyond the session when a command can make its
\* breakpoint again.
LostReplyPersists ==
    [][LostReplyDone =>
          /\ last'.errs >= 1
          /\ \A k \in 1..Len(last'.nodes) :
                (Parsable(last'.nodes[k]) /\ strchr(last'.nodes[k].number, ".") = 0) =>
                    \E j \in 1..Len(rows') : rows'[j].id = last'.nodes[k].number
          /\ (/\ Parsable(Head(last'.nodes))
              /\ strchr(Head(last'.nodes).number, ".") = 0) =>
                \A j \in 1..Len(rows') :
                    (/\ rows'[j].id = Head(last'.nodes).number
                     /\ RowOf(rows, rows'[j].scid) = {}
                     /\ Persistable(rows'[j])) => ~rows'[j].discard]_vars

\* the row was deleted after its apply command had gone out; the reply has
\* come, the error was reported, and a new row that is not discardable
\* holds the id of the reply
LostReplyPersistsWitness ==
    /\ last.op = "inserted" /\ ~crashed /\ last.errs >= 1
    /\ last.token \notin {NULL, <<>>, <<"0">>}
    /\ RowOf(rows, atoi(last.token)) = {}
    /\ \E j \in 1..Len(rows) :
          /\ rows[j].id = Head(last.nodes).number
          /\ rows[j].scid > atoi(last.token)
          /\ ~rows[j].discard

\* the step parsed the nodes of a breakpoint message, and it completed
ParseDone == last'.op \in {"inserted", "list", "created"} /\ ~crashed'

\* the nodes of a message that can be parsed and come after one that cannot
AfterMalformed(nodes) ==
    {k \in 1..Len(nodes) :
        Parsable(nodes[k]) /\ \E m \in 1..(k - 1) : ~Parsable(nodes[m])}

\* the node names a breakpoint that no well formed node before the first
\* malformed one names
OnlyAfterMalformed(nodes, k) ==
    \A m \in 1..(k - 1) :
        (Parsable(nodes[m]) /\ m \notin AfterMalformed(nodes)) =>
            nodes[m].number # nodes[k].number

\* C35: in a breakpoint message, a node that can be parsed and comes after
\* a value node or a node without number is never merged into the row that
\* waits for the reply to its apply command, never makes a row that is not
\* discardable, and never asks for the program to go on.
MalformedDiscardsRest ==
    [][(ParseDone /\ AfterMalformed(last'.nodes) # {}) =>
          LET nodes == last'.nodes
              token == last'.token
          IN  /\ (/\ last'.op = "inserted" /\ ~Parsable(Head(nodes))
                  /\ token \notin {NULL, <<>>} /\ CharAt(token, 1) # "0") =>
                    RowOf(rows', atoi(token)) = RowOf(rows, atoi(token))
              /\ \A k \in AfterMalformed(nodes) : \A j \in 1..Len(rows') :
                    (/\ rows'[j].id = nodes[k].number
                     /\ RowOf(rows, rows'[j].scid) = {}
                     /\ OnlyAfterMalformed(nodes, k)) => rows'[j].discard
              /\ ~Parsable(Head(nodes)) => Resumptions(sent') = 0]_vars

\* the reply to an apply command began with a value node: the row that
\* waited for it has no id still, and the breakpoint of the second node has
\* a new row, which is discardable
MalformedDiscardsRestWitness ==
    /\ last.op = "inserted" /\ ~crashed
    /\ last.token \notin {NULL, <<>>, <<"0">>}
    /\ Len(last.nodes) = 2 /\ last.nodes[1].ptype = "PT_VALUE"
    /\ \E row \in RowOf(rows, atoi(last.token)) : row.id = NULL
    /\ \E j \in 1..Len(rows) :
          /\ rows[j].id = last.nodes[2].number
          /\ rows[j].scid > atoi(last.token)
          /\ rows[j].discard
    /\ sent = <<>>

\* the same after a node without number, in a message with the token "0"
MalformedNoNumberWitness ==
    /\ last.op = "inserted" /\ ~crashed /\ last.token = <<"0">>
    /\ Len(last.nodes) = 2
    /\ last.nodes[1].ptype = "PT_ARRAY" /\ last.nodes[1].number = NULL
    /\ \E j \in 1..Len(rows) : rows[j].id = last.nodes[2].number /\ rows[j].discard
    /\ sent = <<>>

\* C36: in every state a row that is not discardable has a location that is
\* not empty and one of the types b, t, f, w, a, r, for which break_apply()
\* can make the breakpoint again, whether a toggle at a line, a loaded
\* record or an insert reply in the stage BG_PERSIST made the row.
KeptRowsRegenerable ==
    \A j \in 1..Len(rows) :
        ~rows[j].discard =>
            /\ rows[j].location # NULL /\ rows[j].location # <<>>
            /\ rows[j].type \in {"b", "t", "f", "w", "a", "r"}

\* a session is on, the user has toggled a line and the reply to the insert
\* command, which has no token, has made a row that is not discardable
KeptRowsRegenerableWitness ==
    /\ last.op = "inserted" /\ last.token = NULL /\ ~crashed
    /\ \E j \in 1..Len(rows) :
          /\ rows[j].id = Head(last.nodes).number
          /\ rows[j].scid = scid_gen
          /\ ~rows[j].discard /\ rows[j].type = "b"

\* the reply names a hardware breakpoint, and its row is discardable
HardwareRowDiscardableWitness ==
    /\ last.op = "inserted" /\ last.token = NULL /\ ~crashed
    /\ \E j \in 1..Len(rows) :
          /\ rows[j].id = Head(last.nodes).number
          /\ rows[j].scid = scid_gen
          /\ rows[j].discard /\ rows[j].type = "h" /\ rows[j].location # NULL

\* the reply names a catchpoint, which has no location: its row is
\* discardable
CatchRowDiscardableWitness ==
    /\ last.op = "inserted" /\ last.token = NULL /\ ~crashed
    /\ \E j \in 1..Len(rows) :
          /\ rows[j].id = Head(last.nodes).number
          /\ rows[j].discard /\ rows[j].type = "c" /\ rows[j].location = NULL

\* the id is N, or N and a dot and more
Names(id, N) ==
    /\ id # NULL
    /\ \/ id = N
       \/ Len(id) > Len(N) /\ SubSeq(id, 1, Len(N) + 1) = N \o <<".">>

\* the rows after a deletion for the id N: every row whose id N does not
\* name is as it was; a row it names is gone if it is discardable or force
\* is set, else it is there without id and address; and no row is new
Deletes(N, force) ==
    /\ \A i \in 1..Len(rows) :
          IF ~Names(rows[i].id, N)
          THEN \E j \in 1..Len(rows') : rows'[j] = rows[i]
          ELSE IF force \/ rows[i].discard
          THEN RowOf(rows', rows[i].scid) = {}
          ELSE \E j \in 1..Len(rows') :
                  /\ rows'[j].id = NULL /\ rows'[j].addr = NULL
                  /\ [rows'[j] EXCEPT !.id = rows[i].id, !.addr = rows[i].addr,
                                      !.temporary = rows[i].temporary] = rows[i]
    /\ \A j \in 1..Len(rows') : RowOf(rows, rows'[j].scid) # {}

\* the step is the confirmation of a delete command
DeleteConfirmed == last'.op = "done" /\ CharAt(last'.token, 1) = "3"

\* the step is the stop at a temporary breakpoint that no notification of
\* the debugger will report as deleted
TemporaryFired ==
    /\ last'.op = "stopped"
    /\ last'.nodes[2].disp = <<"del">> /\ last'.nodes[2].async < 1

\* C37: a deletion for the id N changes the rows whose id is N or begins
\* with N and a dot, and no other row: not the rows whose id begins with the
\* digits of N only, nor the rows without id.  The confirmation of a delete
\* command removes the rows it changes; the notification of a deleted
\* breakpoint and the stop at a temporary breakpoint remove those that are
\* discardable and take the id and the address from the others.
DeletionByNumber ==
    [][/\ DeleteConfirmed => Deletes(Tail(last'.token), TRUE)
       /\ last'.op = "deleted" => Deletes(last'.token, FALSE)
       /\ TemporaryFired => Deletes(last'.token, FALSE)]_vars

\* breakpoint 1 was confirmed as deleted: a row had its id, no row has it
\* now, and the row of breakpoint 11 is there
DeletionByNumberWitness ==
    /\ last.op = "done" /\ last.token = <<"3", "1">> /\ last.errs = 0
    /\ Len(rows) = 1 /\ rows[1].id = <<"1", "1">>

\* breakpoint 1 was notified as deleted: its row, which is not discardable,
\* has lost the id, and the row of breakpoint 11 has its id
DeletionNotifiedWitness ==
    /\ last.op = "deleted" /\ last.token = <<"1">>
    /\ Len(rows) = 2
    /\ \E i, j \in 1..2 :
          /\ rows[i].id = NULL /\ ~rows[i].discard /\ rows[i].addr = NULL
          /\ rows[j].id = <<"1", "1">>

\* a temporary breakpoint was hit and its row, which was discardable, is
\* gone
TemporaryFiredWitness ==
    /\ last.op = "stopped" /\ last.nodes[2].disp = <<"del">>
    /\ last.nodes[2].async < 1 /\ last.token = <<"1">>
    /\ Len(rows) = 1 /\ rows[1].id = <<"1", "1">>

\* C38: when breaks_clear() has run, no row has an id or an address and no
\* row is discardable: the rows that were discardable are gone, and the
\* others are there with the location, the enabled flag, the condition, the
\* ignore count, the script and the run_apply flag they had.
ClearKeepsUserRows ==
    [][last'.op = "clear" =>
          /\ \A j \in 1..Len(rows') :
                /\ rows'[j].id = NULL /\ rows'[j].addr = NULL
                /\ ~rows'[j].discard
                /\ RowOf(rows, rows'[j].scid) # {}
          /\ \A i \in 1..Len(rows) :
                IF rows[i].discard THEN RowOf(rows', rows[i].scid) = {}
                ELSE \E j \in 1..Len(rows') :
                        /\ rows'[j].scid = rows[i].scid
                        /\ rows'[j].location = rows[i].location
                        /\ rows'[j].enabled = rows[i].enabled
                        /\ rows'[j].cond = rows[i].cond
                        /\ rows'[j].ignore = rows[i].ignore
                        /\ rows'[j].script = rows[i].script
                        /\ rows'[j].run_apply = rows[i].run_apply]_vars

\* the session is over: of the two rows there were, the one the user had
\* edited is there, with its condition and without id, and the other is gone
ClearKeepsUserRowsWitness ==
    /\ last.op = "clear"
    /\ scid_gen = 2 /\ Len(rows) = 1
    /\ rows[1].cond # NULL /\ rows[1].id = NULL /\ rows[1].addr = NULL

\* C39: no two rows have the same local sequence id; each sequence id is at
\* least 1 and at most the generator, so that its decimal form does not
\* start with '0' and the reply to its apply command is not taken for the
\* reply to a run-to command; and the generator goes down only in a step
\* that empties the store, after which it counts the rows made since.
ScidsUnique ==
    /\ [](/\ \A i, j \in 1..Len(rows) : i # j => rows[i].scid # rows[j].scid
          /\ \A i \in 1..Len(rows) :
                /\ 1 <= rows[i].scid /\ rows[i].scid <= scid_gen
                /\ CharAt(itoa(rows[i].scid), 1) # "0"
                /\ break_stage(itoa(rows[i].scid), i) = "BG_APPLY")
    /\ [][scid_gen' < scid_gen =>
             /\ last'.op = "load"
             /\ scid_gen' = Len(rows')
             /\ \A j \in 1..Len(rows') : rows'[j].scid = j]_vars

\* a row was made after another had been removed: the generator is past
\* the number of rows, and the last row made has the generator's value
ScidsUniqueWitness ==
    /\ Len(rows) = 2 /\ scid_gen = 3
    /\ rows[1].scid # rows[2].scid
    /\ \E i \in 1..2 : rows[i].scid = scid_gen

\* the rows of the thread store in state STOPPED
StoppedRows(ths) == {i \in 1..Len(ths) : ths[i].state = STOPPED}

\* C40: thread_prompt is the number of thread rows in state STOPPED, whatever
\* notifications and teardowns have run; it is never below 0, and it is 0
\* when threads_clear() has run.
PromptCountsStopped ==
    /\ thread_prompt = Cardinality(StoppedRows(threads))
    /\ thread_prompt >= 0
    /\ last.op = "clear" => thread_prompt = 0

\* of two threads that were stopped one runs again: the count is 1
PromptCountsStoppedWitness ==
    /\ last.op = "thread_running"
    /\ ThreadMsg(last).tid # <<"a", "l", "l">>
    /\ Len(threads) = 2 /\ thread_prompt = 1
    /\ \E i \in 1..2 : threads[i].id = ThreadMsg(last).tid /\ threads[i].state = RUNNING
    /\ \E i \in 1..2 : threads[i].state = STOPPED /\ threads[i].addr # NULL

\* a thread has exited and the one that is left runs: the count is 0
PromptAfterExitWitness ==
    /\ last.op = "thread_exited"
    /\ Len(threads) = 1 /\ threads[1].state = RUNNING
    /\ thread_prompt = 0
====
